---------------------------- MODULE Spec2Model ----------------------------
(*************************************************************************)
(* Coverage-grid cache and preload engine: cache-key derivation          *)
(* (models.py generate_cache_key), the two-tier cache, the preload queue *)
(* and the preload worker of CoverageGridCacheManager (cache_manager.py).*)
(*                                                                       *)
(* Python values are encoded with one TLA+ type per position so that     *)
(* they can be compared:                                                 *)
(*   - a grid result is a string: "None" (failure), "[]" (the empty      *)
(*     list), "g1" (a non-empty grid);                                   *)
(*   - a JSON value inside a filter dict is <<tag, items>> with tag      *)
(*     "list", "int" or "null" and items a sequence of strings;          *)
(*   - an optional list / dict argument is <<"list", seq>>,              *)
(*     <<"dict", pairs>> or <<"null", <<>>>> (Python None); a dict keeps *)
(*     its pairs <<name, value>> in insertion order.                     *)
(*************************************************************************)
EXTENDS Integers, Sequences, FiniteSets, TLC

(*************************************************************************)
(* Python values                                                         *)
(*************************************************************************)
PyNone == <<"null", <<>>>>
PyList(s) == <<"list", s>>
PyDict(pairs) == <<"dict", pairs>>
PyInt(s) == <<"int", <<s>>>>

\* bool(x) for an optional list or dict: None and the empty container are falsy.
PyTruthy(x) == x[1] # "null" /\ x[2] # <<>>

\* The strings of the model in code-point order (Python's str comparison).
StrOrder ==
    <<"1", "4", "5", "A", "A+", "B", "bakery", "coffee", "grades", "is_open",
      "mashhad", "restaurant", "shiraz", "status_ids", "supermarket", "tehran",
      "visible">>

StrRank(s) == CHOOSE i \in DOMAIN StrOrder : StrOrder[i] = s

StrLess(a, b) == StrRank(a) < StrRank(b)

\* Insertion of one string into a sorted sequence, after its equals (stable).
RECURSIVE InsertStr(_, _)
InsertStr(x, s) ==
    IF s = <<>> THEN <<x>>
    ELSE IF StrLess(x, Head(s)) THEN <<x>> \o s
    ELSE <<Head(s)>> \o InsertStr(x, Tail(s))

\* sorted(list of str)
RECURSIVE SortedStrs(_)
SortedStrs(s) ==
    IF s = <<>> THEN <<>>
    ELSE InsertStr(s[Len(s)], SortedStrs(SubSeq(s, 1, Len(s) - 1)))

\* Insertion of one <<name, value>> pair into a sequence sorted by name.
RECURSIVE InsertPair(_, _)
InsertPair(p, s) ==
    IF s = <<>> THEN <<p>>
    ELSE IF StrLess(p[1], Head(s)[1]) THEN <<p>> \o s
    ELSE <<Head(s)>> \o InsertPair(p, Tail(s))

\* json.dumps(dict, sort_keys=True): the pairs in the order of their names.
RECURSIVE SortedPairs(_)
SortedPairs(s) ==
    IF s = <<>> THEN <<>>
    ELSE InsertPair(s[Len(s)], SortedPairs(SubSeq(s, 1, Len(s) - 1)))

\* json.dumps(x, sort_keys=True) of an optional dict: null stays null.
JsonDumpsSorted(d) == IF d[1] = "dict" THEN PyDict(SortedPairs(d[2])) ELSE d

(*************************************************************************)
(* generate_cache_key (models.py)                                        *)
(* The key is the MD5 digest of the canonical JSON string; the digest is *)
(* modelled as injective on that string, so the key is the canonical     *)
(* form itself: <<additional, business_lines, city, vendor_filters>>.    *)
(*************************************************************************)
\* A variant without the sort: the list as the caller wrote it.
KeyBusinessLinesUnsorted(business_lines) ==
    IF PyTruthy(business_lines) THEN business_lines[2] ELSE <<>>

\* 'business_lines': sorted(business_lines) if business_lines else []
KeyBusinessLines(business_lines) ==
    IF PyTruthy(business_lines) THEN SortedStrs(business_lines[2]) ELSE <<>>

\* 'additional': additional_params or {}
KeyAdditional(additional_params) ==
    IF PyTruthy(additional_params) THEN additional_params ELSE PyDict(<<>>)

generate_cache_key(city_name, business_lines, vendor_filters, additional_params) ==
    << JsonDumpsSorted(KeyAdditional(additional_params)),
       KeyBusinessLines(business_lines),
       city_name,
       JsonDumpsSorted(vendor_filters) >>


(*************************************************************************)
(* Preload tasks, priorities and the common combinations                 *)
(*************************************************************************)
\* filters.get(name): the value stored under name, None when absent.
DictGet(d, name) ==
    IF \E i \in DOMAIN d[2] : d[2][i][1] = name
    THEN d[2][CHOOSE i \in DOMAIN d[2] : d[2][i][1] = name][2]
    ELSE PyNone

\* _calculate_priority has not been called; it raised.
NoPriority == 0
PriorityRaised == 0 - 1

\* A variant without the clamp.
ClampPriorityNone(p) == p

\* max(1, min(5, priority))
ClampPriority(p) == IF p < 1 THEN 1 ELSE IF p > 5 THEN 5 ELSE p

_calculate_priority(city, business_lines, filters) ==
    ClampPriority(3
        - (IF city = "tehran" THEN 1 ELSE 0)
        - (IF \E i \in DOMAIN business_lines : business_lines[i] = "restaurant"
           THEN 1 ELSE 0)
        - (IF Len(business_lines) = 1 THEN 1 ELSE 0)
        - (IF DictGet(filters, "grades") = PyList(<<"A+">>) THEN 1 ELSE 0))

\* CoverageGridTask(city_name, business_lines, vendor_filters, priority);
\* created_at is never read by the manager and is left out.
CoverageGridTask(city, bl, vf, prio) ==
    [city_name |-> city, business_lines |-> bl, vendor_filters |-> vf,
     priority |-> prio]

\* The key of a task, as both the enqueue check and the worker derive it.
TaskKey(task) ==
    generate_cache_key(task.city_name, PyList(task.business_lines),
                       task.vendor_filters, PyNone)

CommonCities == <<"tehran", "mashhad", "shiraz">>

CommonBusinessLines ==
    << <<"restaurant">>, <<"coffee">>, <<"bakery">>, <<"supermarket">>,
       <<"restaurant", "coffee">>, <<"restaurant", "bakery">> >>

FilterAllVendors ==
    PyDict(<< <<"status_ids", PyList(<<"5">>)>>, <<"grades", PyList(<<"A", "A+">>)>>,
              <<"visible", PyInt("1")>>, <<"is_open", PyNone>> >>)

FilterPremium ==
    PyDict(<< <<"status_ids", PyList(<<"5">>)>>, <<"grades", PyList(<<"A+">>)>>,
              <<"visible", PyInt("1")>>, <<"is_open", PyInt("1")>> >>)

FilterAllActive ==
    PyDict(<< <<"status_ids", PyList(<<"4", "5">>)>>,
              <<"grades", PyList(<<"A", "A+", "B">>)>>,
              <<"visible", PyInt("1")>>, <<"is_open", PyNone>> >>)

CommonFilters == <<FilterAllVendors, FilterPremium, FilterAllActive>>

\* for city in cities: for bl_combo in business_lines: for filter_combo in
\* common_filters: combinations.append(...)   (54 combinations, in loop order)
_define_common_combinations ==
    [n \in 1..(Len(CommonCities) * Len(CommonBusinessLines) * Len(CommonFilters)) |->
        LET c == ((n - 1) \div (Len(CommonBusinessLines) * Len(CommonFilters))) + 1
            b == (((n - 1) \div Len(CommonFilters)) % Len(CommonBusinessLines)) + 1
            f == ((n - 1) % Len(CommonFilters)) + 1
        IN  CoverageGridTask(CommonCities[c], CommonBusinessLines[b], CommonFilters[f],
                _calculate_priority(CommonCities[c], CommonBusinessLines[b],
                                    CommonFilters[f]))]

common_combinations == _define_common_combinations

\* Stable insertion of a task by priority: after every task of priority <= its own.
RECURSIVE InsertByPriority(_, _)
InsertByPriority(task, q) ==
    IF q = <<>> THEN <<task>>
    ELSE IF task.priority < Head(q).priority THEN <<task>> \o q
    ELSE <<Head(q)>> \o InsertByPriority(task, Tail(q))

\* preload_queue.sort(key=lambda x: x.priority)   (list.sort is stable)
RECURSIVE SortByPriority(_)
SortByPriority(q) ==
    IF q = <<>> THEN <<>>
    ELSE InsertByPriority(q[Len(q)], SortByPriority(SubSeq(q, 1, Len(q) - 1)))

QueueKeys(q) == {TaskKey(q[i]) : i \in DOMAIN q}

\* The duplicate check of _add_to_preload_queue: cache_key not in existing_keys
IsNewInQueue(q, key) == key \notin QueueKeys(q)

\* A variant that puts the new task in front of the queue.
AddToPreloadQueueInFront(q, task) ==
    IF IsNewInQueue(q, TaskKey(task))
    THEN <<task>> \o q
    ELSE q

\* The locked body of _add_to_preload_queue.
AddToPreloadQueue(q, task) ==
    IF IsNewInQueue(q, TaskKey(task))
    THEN SortByPriority(Append(q, task))
    ELSE q

(*************************************************************************)
(* Bounds and workload                                                   *)
(*************************************************************************)
\* Calls (get_or_calculate, start_preloading, stop_preloading) one caller
\* makes in a run, one after the other, beside the worker loops.
MaxCalls == 3

\* Calls begun in a run by callers that run concurrently.
MaxConcCalls == 2

\* start_preloading seeds this many of the 54 common combinations, from the
\* 14th on: tehran / [restaurant, coffee] with the premium filters, then with
\* the all-active filters, then tehran / [restaurant, bakery] ...
MaxSeed == 2

\* How far the time advances, in ticks, and the largest days_old a
\* cleanup_old_cache call is given.
MaxTime == 4
MaxDaysOld == 1

\* warm_up_cache runs over this many of the 54 common combinations, from the
\* 18th on: tehran / [restaurant, bakery] with the all-active filters, then
\* mashhad / [restaurant] with the all-vendors filters, then with the premium
\* filters ...
MaxWarmUp == 2

SeedCombinations == SubSeq(common_combinations, 14, 13 + MaxSeed)

WarmUpCombinations == SubSeq(common_combinations, 18, 17 + MaxWarmUp)

\* What callers pass to warm_up_cache as priority_cities.
PriorityCitiesInputs ==
    { PyNone, PyList(<<>>), PyList(<<"tehran">>), PyList(<<"mashhad">>),
      PyList(<<"mashhad", "tehran">>), PyList(<<"shiraz">>) }

\* if priority_cities is None: priority_cities = ["tehran"]
DefaultCities(priority_cities) ==
    IF priority_cities = PyNone THEN <<"tehran">> ELSE priority_cities[2]

\* A variant that takes every city.
InPriorityCitiesAlways(city, cities) == TRUE

\* combo['city_name'] in priority_cities
InPriorityCities(city, cities) == \E i \in DOMAIN cities : cities[i] = city

\* [combo for combo in self.common_combinations
\*  if combo['city_name'] in priority_cities and combo['priority'] <= 2]
HighPriorityCombos(combos, cities) ==
    LET Keep(combo) == /\ InPriorityCities(combo.city_name, cities)
                       /\ combo.priority <= 2
    IN  SelectSeq(combos, Keep)

\* self.max_memory_cache_size = 50
max_memory_cache_size == 50

\* ThreadPoolExecutor(max_workers=3, ...)
max_workers == 3

Threads == {1, 2}

Workers == 1..max_workers

\* The same filter values as FilterPremium, with the names in another order.
FilterPremiumReordered ==
    PyDict(<< <<"grades", PyList(<<"A+">>)>>, <<"is_open", PyInt("1")>>,
              <<"visible", PyInt("1")>>, <<"status_ids", PyList(<<"5">>)>> >>)

\* The parameter sets callers ask for: the first is not a seeded combination;
\* the other two are the first seeded combination, as it is seeded and with
\* the business lines and the filter names in another order.
Request(city, bl, vf) ==
    [city_name |-> city, business_lines |-> bl, vendor_filters |-> vf]

RequestA == Request("mashhad", <<"coffee">>, FilterAllVendors)
RequestB == Request("tehran", <<"restaurant", "coffee">>, FilterPremium)
RequestB2 == Request("tehran", <<"coffee", "restaurant">>, FilterPremiumReordered)

Requests == {RequestA, RequestB, RequestB2}

\* The warm workload: before anything else, one caller makes this many first
\* calls, one after the other, each for a parameter set of its own, each
\* computed and stored; they fill the memory cache.
WarmEntries == max_memory_cache_size

WarmRequest(n) ==
    Request("shiraz", <<"coffee", "bakery">>,
            PyDict(<< <<"status_ids", PyList(<<ToString(n)>>)>> >>))

\* What callers ask for once a warm-up, if any, is over.
RequestsOf(w) ==
    IF w = "warm" THEN {WarmRequest(1), RequestA}
    ELSE IF w = "restart" THEN {RequestA}
    ELSE IF w = "fresh" THEN {RequestB2}
    ELSE IF w \in {"cold", "clear", "cleanup", "preload", "stop", "warmup", "steady"}
         THEN {RequestA, RequestB2}
    ELSE Requests

\* The workloads: "cold" is one caller making its calls one after the other
\* while the worker loops run ("restart" is the same with one call more, long
\* enough for a miss, a start, a stop and a second start); "conc" and "warm" are two concurrent callers of
\* get_or_calculate_coverage_grid, on an empty and on a full memory cache.
Callers(w) ==
    IF w \in {"cold", "clear", "cleanup", "preload", "warmup", "restart", "steady"}
    THEN {1}
    ELSE Threads

CallBudget(w) ==
    IF w \in {"cold", "clear", "cleanup", "preload", "stop"} THEN MaxCalls
    ELSE IF w = "restart" THEN MaxCalls + 1
    ELSE MaxConcCalls

\* In the "stop" workload thread 1 is a request thread calling
\* get_or_calculate_coverage_grid while thread 2 calls start_preloading and
\* stop_preloading; elsewhere every caller makes every kind of call.
Foreground(w) == IF w = "stop" THEN {1} ELSE Callers(w)

Control(w) == IF w = "stop" THEN {2} ELSE Callers(w)

RequestKey(r) ==
    generate_cache_key(r.city_name, PyList(r.business_lines), r.vendor_filters, PyNone)

\* What one Computation Engine call (_calculate_coverage_grid) can return:
\* None on an exception, [] on no vendors / no grid points, or a grid ("g1").
EngineResults == {"None", "[]", "g1"}

\* In the "fresh" workload the data the engine reads changes between calls:
\* one invocation for a key returns the grid "g1", another the grid "g2".
\* In the "steady" workload every call finds no data or fails, so that no
\* call leaves anything in a tier.
EngineResultsOf(w) ==
    IF w = "fresh" THEN {"g1", "g2"}
    ELSE IF w = "steady" THEN {"None", "[]"}
    ELSE EngineResults

NoGrid == "-"

\* What callers pass to clear_cache as cache_type: the three values the code
\* tests for, and the specification's name of the second tier.
CacheTypes == {"all", "memory", "database", "persistent"}

\* No clear_cache call in progress or just ended.
NoCacheType == ""

\* What the tiers hold for a key (the grid, "None" when the key is absent)
\* and whether the executor has been shut down.
Snapshot(mc, table, key, shutdown) ==
    [memory |-> IF \E i \in DOMAIN mc : mc[i].key = key
                THEN mc[CHOOSE i \in DOMAIN mc : mc[i].key = key].data
                ELSE "None",
     store |-> IF key \in DOMAIN table THEN table[key] ELSE "None",
     shutdown |-> shutdown]

NoSnapshot == [memory |-> NoGrid, store |-> NoGrid, shutdown |-> FALSE]

\* No completed call (history).
NoCall == [result |-> NoGrid, force |-> FALSE]
NoKey == <<PyNone, <<>>, "", PyNone>>
NoRequest == Request("", <<>>, PyNone)
NoTask == CoverageGridTask("", <<>>, PyNone, 0)

\* Arguments of generate_cache_key, for the derivation checked on its own.
KeyArgs(city, bl, vf, ap) ==
    [city_name |-> city, business_lines |-> bl, vendor_filters |-> vf,
     additional_params |-> ap]

KeyArgsKey(a) ==
    generate_cache_key(a.city_name, a.business_lines, a.vendor_filters,
                       a.additional_params)

KeyBusinessLineInputs ==
    { PyNone, PyList(<<>>), PyList(<<"coffee">>), PyList(<<"restaurant">>),
      PyList(<<"restaurant", "coffee">>), PyList(<<"coffee", "restaurant">>),
      PyList(<<"bakery", "coffee", "restaurant">>),
      PyList(<<"restaurant", "bakery", "coffee">>) }

KeyFilterInputs ==
    { PyNone, PyDict(<<>>),
      PyDict(<< <<"status_ids", PyList(<<"5">>)>>, <<"grades", PyList(<<"A+">>)>> >>),
      PyDict(<< <<"grades", PyList(<<"A+">>)>>, <<"status_ids", PyList(<<"5">>)>> >>),
      PyDict(<< <<"grades", PyList(<<"A">>)>>, <<"status_ids", PyList(<<"5">>)>> >>) }

KeyAdditionalInputs ==
    { PyNone, PyDict(<<>>),
      PyDict(<< <<"visible", PyInt("1")>>, <<"is_open", PyNone>> >>),
      PyDict(<< <<"is_open", PyNone>>, <<"visible", PyInt("1")>> >>) }

KeyInputs ==
    { KeyArgs(c, bl, vf, ap) :
        c \in {"tehran", "mashhad"}, bl \in KeyBusinessLineInputs,
        vf \in KeyFilterInputs, ap \in KeyAdditionalInputs }

NoKeyArgs == KeyArgs("", PyNone, PyNone, PyNone)

(*************************************************************************)
(* State                                                                 *)
(*************************************************************************)
VARIABLES
    memory_cache,       \* self.memory_cache: the entries in insertion order
    memory_cache_lock,  \* the threads inside a `with self.memory_cache_lock`
    db,                 \* table coverage_grid_cache: cache_key -> grid_data
    db_last_accessed,   \* table coverage_grid_cache: cache_key -> last_accessed
    utc_now,            \* the time (UTC), what CURRENT_TIMESTAMP reads
    tz_offset,          \* the host's time zone: datetime.now() - UTC
    cleanup,            \* per thread: days_old and cutoff_date of its
                        \* cleanup_old_cache call
    preload_queue,      \* self.preload_queue
    is_preloading,      \* self.is_preloading
    executor_shutdown,  \* preload_executor.shutdown() was called
    clock,              \* datetime.now(), read as a strictly increasing tick
    pc,                 \* per calling thread: where it is in its call
    req,                \* per thread: the arguments of its get_or_calculate call
    force,              \* per thread: force_recalculate
    cache_key,          \* per thread: local cache_key
    cached_data,        \* per thread: local cached_data (the store lookup's result)
    grid_data,          \* per thread: local grid_data (the engine's result)
    put_data,           \* per thread: parameter data of _add_to_memory_cache
    ret,                \* per thread: the value the call returns
    oldest_key,         \* per thread: local oldest_key of _add_to_memory_cache
    seed_i,             \* per thread: position of the seeding loop
    cache_type,         \* per thread: parameter cache_type of its clear_cache
                        \* call, kept until the thread's next call
    wpc,                \* per pool thread: where the worker loop is
    wtask,              \* per pool thread: local task
    wcached,            \* per pool thread: what its store lookup returned
    wgrid,              \* per pool thread: local grid_data
    computed,           \* history, per thread: this call invoked the engine
    prior,              \* history, per thread: the last call completed for the
                        \* same key before this one began (its result, its
                        \* force_recalculate), NoCall when there was none
    served,             \* history: cache_key -> the last completed call
    ncalls,             \* history: calls begun
    store_failed,       \* history, per thread: a store operation of its call
                        \* raised inside the store (and was swallowed)
    at_begin,           \* history, per thread: what the two tiers held for the
                        \* key, and whether stop_preloading had shut the
                        \* executor down, when its get_or_calculate call began
    workload,           \* the callers' workload
    warm_left,          \* warm workload: sequential first calls still to make
    key_in,             \* key derivation: the two argument tuples
    key_out,            \* key derivation: their two keys
    priority,           \* key derivation: what _calculate_priority gave for the
                        \* first argument tuple in _add_to_preload_queue
    warm_up             \* per thread: its warm_up_cache call - priority_cities,
                        \* the combinations still to run (todo), and as history
                        \* the calls it began and what each returned

vars ==
    << memory_cache, memory_cache_lock, db, preload_queue, is_preloading,
       executor_shutdown, clock, pc, req, force, cache_key, cached_data, grid_data,
       put_data, ret, oldest_key, seed_i, wpc, wtask, wcached, wgrid, computed,
       prior, served, ncalls, workload,
       warm_left, key_in, key_out, priority, warm_up, db_last_accessed, utc_now, tz_offset,
       cleanup, cache_type, store_failed, at_begin >>

memVars == << memory_cache, memory_cache_lock, clock >>
workerVars == << wpc, wtask, wcached, wgrid >>
localVars == << req, force, cache_key, cached_data, grid_data, put_data, ret, oldest_key,
               seed_i >>
historyVars == << computed, prior, served, ncalls >>
keyVars == << workload, warm_left, key_in, key_out, priority >>
workVars == << keyVars, warm_up >>
clockVars == << utc_now, tz_offset, cleanup >>
timeVars == << db_last_accessed, clockVars >>
auditVars == << store_failed, at_begin >>

(*************************************************************************)
(* The memory cache (a dict, kept as the sequence of its items)          *)
(*************************************************************************)
MemKeys(mc) == {mc[i].key : i \in DOMAIN mc}

MemHas(mc, key) == key \in MemKeys(mc)

MemAt(mc, key) == CHOOSE i \in DOMAIN mc : mc[i].key = key

MemEntry(mc, key) == mc[MemAt(mc, key)]

\* del self.memory_cache[key]
MemDelete(mc, key) ==
    LET i == MemAt(mc, key)
    IN  SubSeq(mc, 1, i - 1) \o SubSeq(mc, i + 1, Len(mc))

\* self.memory_cache[key] = {...}: a resident key keeps its place in the dict.
MemAssign(mc, key, entry) ==
    IF MemHas(mc, key) THEN [mc EXCEPT ![MemAt(mc, key)] = entry]
    ELSE Append(mc, entry)

\* _update_memory_cache_access
_update_memory_cache_access(mc, key, now) ==
    IF MemHas(mc, key)
    THEN [mc EXCEPT ![MemAt(mc, key)].last_accessed = now,
                    ![MemAt(mc, key)].access_count = @ + 1]
    ELSE mc

\* A variant that evicts one insertion too late: `>` for `>=`.
CacheFullOffByOne(mc) == Len(mc) > max_memory_cache_size

\* len(self.memory_cache) >= self.max_memory_cache_size
CacheFull(mc) == Len(mc) >= max_memory_cache_size

\* min(self.memory_cache.keys(), key=lambda k: ...['last_accessed']):
\* the first key, in dict order, among those of minimum last_accessed.
OldestKey(mc) ==
    LET i == CHOOSE i \in DOMAIN mc :
                /\ \A j \in DOMAIN mc : mc[i].last_accessed <= mc[j].last_accessed
                /\ \A j \in 1..(i - 1) : mc[j].last_accessed > mc[i].last_accessed
    IN  mc[i].key

\* The eviction scan of _add_to_memory_cache; NoKey when nothing is evicted.
EvictionScan(mc) == IF CacheFull(mc) THEN OldestKey(mc) ELSE NoKey

\* The rest of _add_to_memory_cache: the delete of the scanned key, the insert.
MemPutEntry(mc, victim, key, d, now) ==
    MemAssign(IF victim # NoKey /\ MemHas(mc, victim) THEN MemDelete(mc, victim) ELSE mc,
              key,
              [key |-> key, data |-> d, last_accessed |-> now, access_count |-> 1])

\* A variant without mutual exclusion: the lock can always be entered.
LockIgnored == TRUE

\* `with self.memory_cache_lock:` can be entered
MemoryLockFree == memory_cache_lock = {}

(*************************************************************************)
(* The persistent store (DatabaseManager, table coverage_grid_cache)     *)
(*************************************************************************)
\* get_cached_coverage_grid: the stored grid, None on a miss or on an error.
get_cached_coverage_grid(table, key, ok) ==
    IF ok /\ key \in DOMAIN table THEN table[key] ELSE "None"

\* cache_coverage_grid: INSERT OR REPLACE; an error leaves the table as it was.
cache_coverage_grid(table, key, d, ok) ==
    IF ok
    THEN [k \in DOMAIN table \cup {key} |-> IF k = key THEN d ELSE table[k]]
    ELSE table

\* get_cached_coverage_grid, on a hit:
\* UPDATE ... SET last_accessed = CURRENT_TIMESTAMP WHERE cache_key = ?
TouchRecord(stamps, key, ok, now) ==
    IF ok /\ key \in DOMAIN stamps THEN [stamps EXCEPT ![key] = now] ELSE stamps

\* A variant whose replacement keeps the last_accessed of the row it replaces.
StampRecordKeepsOld(stamps, key, ok, now) ==
    IF ok
    THEN [k \in DOMAIN stamps \cup {key} |->
             IF k = key /\ key \notin DOMAIN stamps THEN now ELSE stamps[k]]
    ELSE stamps

\* cache_coverage_grid: the row INSERT OR REPLACE writes takes the column
\* default, last_accessed = CURRENT_TIMESTAMP.
StampRecord(stamps, key, ok, now) ==
    IF ok
    THEN [k \in DOMAIN stamps \cup {key} |-> IF k = key THEN now ELSE stamps[k]]
    ELSE stamps

\* Time is counted in ticks of half a day: timedelta(days=days_old).
TicksPerDay == 2

\* The time zones a host may run in, as datetime.now() - UTC in ticks:
\* UTC-12, UTC and UTC+12.
TzOffsets == {0 - 1, 0, 1}

DaysOldValues == 1 .. MaxDaysOld

\* datetime.now(): the host's local wall-clock time, without a zone.
LocalNow(now, offset) == now + offset

\* cutoff_date = datetime.now() - timedelta(days=days_old)
CutoffDate(now, offset, days_old) == LocalNow(now, offset) - days_old * TicksPerDay

\* DELETE FROM coverage_grid_cache WHERE last_accessed < ?
DeletedByCleanup(stamp, cutoff_date) == stamp < cutoff_date

\* A column of the table after the DELETE; `ok` is FALSE when the statement
\* raises, which rolls the transaction back.
DeleteOld(column, stamps, cutoff_date, ok) ==
    LET kept == {k \in DOMAIN column : ~DeletedByCleanup(stamps[k], cutoff_date)}
    IN  IF ~ok \/ kept = DOMAIN column THEN column
        ELSE IF kept = {} THEN <<>>
        ELSE [k \in kept |-> column[k]]

\* No cleanup_old_cache call in progress.
NoCleanup == [days_old |-> 0, cutoff_date |-> 0]

\* No warm_up_cache call was made by the thread.
NoWarmUp ==
    [active |-> FALSE, priority_cities |-> PyNone, todo |-> <<>>, begun |-> <<>>,
     returned |-> <<>>]

\* Python truthiness of a grid value: None and [] are falsy.
GridTruthy(g) == g \notin {"None", "[]"}

\* A variant that looks into the caches whatever force_recalculate is.
UseCachesAlways(force_recalculate) == TRUE

\* `if not force_recalculate:` guards both cache lookups.
UseCaches(force_recalculate) == ~force_recalculate

(*************************************************************************)
(* Init: the manager after __init__, every thread outside any call       *)
(*************************************************************************)
ManagerInit ==
    /\ memory_cache = <<>>
    /\ memory_cache_lock = {}
    /\ db = <<>>
    /\ preload_queue = <<>>
    /\ is_preloading = FALSE
    /\ executor_shutdown = FALSE
    /\ clock = 1
    /\ pc = [t \in Threads |-> "idle"]
    /\ req = [t \in Threads |-> NoRequest]
    /\ force = [t \in Threads |-> FALSE]
    /\ cache_key = [t \in Threads |-> NoKey]
    /\ cached_data = [t \in Threads |-> NoGrid]
    /\ grid_data = [t \in Threads |-> NoGrid]
    /\ put_data = [t \in Threads |-> NoGrid]
    /\ ret = [t \in Threads |-> NoGrid]
    /\ oldest_key = [t \in Threads |-> NoKey]
    /\ seed_i = [t \in Threads |-> 0]
    /\ wpc = [w \in Workers |-> "free"]
    /\ wtask = [w \in Workers |-> NoTask]
    /\ wcached = [w \in Workers |-> NoGrid]
    /\ wgrid = [w \in Workers |-> NoGrid]
    /\ computed = [t \in Threads |-> FALSE]
    /\ prior = [t \in Threads |-> NoCall]
    /\ served = <<>>
    /\ ncalls = 0
    /\ db_last_accessed = <<>>
    /\ utc_now = 0
    /\ cleanup = [t \in Threads |-> NoCleanup]
    /\ cache_type = [t \in Threads |-> NoCacheType]
    /\ store_failed = [t \in Threads |-> FALSE]
    /\ at_begin = [t \in Threads |-> NoSnapshot]
    /\ warm_up = [t \in Threads |-> NoWarmUp]

NoKeyDerivation ==
    /\ key_in = <<NoKeyArgs, NoKeyArgs>>
    /\ key_out = <<NoKey, NoKey>>
    /\ priority = NoPriority

Init ==
    /\ ManagerInit
    /\ workload = "cold"
    /\ tz_offset = 0
    /\ warm_left = 0
    /\ NoKeyDerivation

InitConc ==
    /\ ManagerInit
    /\ workload = "conc"
    /\ tz_offset = 0
    /\ warm_left = 0
    /\ NoKeyDerivation

InitWarm ==
    /\ ManagerInit
    /\ workload = "warm"
    /\ tz_offset = 0
    /\ warm_left = WarmEntries
    /\ NoKeyDerivation

InitClear ==
    /\ ManagerInit
    /\ workload = "clear"
    /\ tz_offset = 0
    /\ warm_left = 0
    /\ NoKeyDerivation

\* The host's time zone is the environment's.
InitCleanup ==
    /\ ManagerInit
    /\ workload = "cleanup"
    /\ tz_offset \in TzOffsets
    /\ warm_left = 0
    /\ NoKeyDerivation

InitPreload ==
    /\ ManagerInit
    /\ workload = "preload"
    /\ tz_offset = 0
    /\ warm_left = 0
    /\ NoKeyDerivation

InitStop ==
    /\ ManagerInit
    /\ workload = "stop"
    /\ tz_offset = 0
    /\ warm_left = 0
    /\ NoKeyDerivation

InitRestart ==
    /\ ManagerInit
    /\ workload = "restart"
    /\ tz_offset = 0
    /\ warm_left = 0
    /\ NoKeyDerivation

InitSteady ==
    /\ ManagerInit
    /\ workload = "steady"
    /\ tz_offset = 0
    /\ warm_left = 0
    /\ NoKeyDerivation

InitFresh ==
    /\ ManagerInit
    /\ workload = "fresh"
    /\ tz_offset = 0
    /\ warm_left = 0
    /\ NoKeyDerivation

InitWarmUp ==
    /\ ManagerInit
    /\ workload = "warmup"
    /\ tz_offset = 0
    /\ warm_left = 0
    /\ NoKeyDerivation

InitKeys ==
    /\ ManagerInit
    /\ workload = "keys"
    /\ tz_offset = 0
    /\ warm_left = 0
    /\ key_in \in KeyInputs \X KeyInputs
    /\ key_out = <<NoKey, NoKey>>
    /\ priority = NoPriority

(*************************************************************************)
(* get_or_calculate_coverage_grid                                        *)
(*************************************************************************)
\* A thread outside any call may begin one. Idle threads are interchangeable
\* (their locals are reset), so the lowest idle thread is the one that begins.
\* The history count of calls begun: the "steady" workload is a caller that
\* goes on calling for ever, its calls are not counted.
CountCall(w, n) == IF w = "steady" THEN n ELSE n + 1

CanBeginAs(t, role) ==
    /\ pc[t] = "idle"
    /\ t \in role
    /\ ncalls < CallBudget(workload)
    /\ warm_left = 0
    /\ \A u \in role : pc[u] = "idle" => t <= u

CanBegin(t) == CanBeginAs(t, Callers(workload))

\* The call begins: cache_key = generate_cache_key(...).
GetBegin(t) ==
    /\ CanBeginAs(t, Foreground(workload))
    /\ \E r \in RequestsOf(workload), f \in BOOLEAN :
        /\ req' = [req EXCEPT ![t] = r]
        /\ force' = [force EXCEPT ![t] = f]
        /\ cache_key' = [cache_key EXCEPT ![t] = RequestKey(r)]
        /\ pc' = [pc EXCEPT ![t] = IF UseCaches(f) THEN "mem_check" ELSE "enqueue"]
        /\ prior' = [prior EXCEPT ![t] =
                        IF RequestKey(r) \in DOMAIN served THEN served[RequestKey(r)]
                        ELSE NoCall]
        /\ at_begin' = [at_begin EXCEPT ![t] = Snapshot(memory_cache, db, RequestKey(r), executor_shutdown)]
    /\ computed' = [computed EXCEPT ![t] = FALSE]
    /\ store_failed' = [store_failed EXCEPT ![t] = FALSE]
    /\ cache_type' = [cache_type EXCEPT ![t] = NoCacheType]
    /\ ncalls' = CountCall(workload, ncalls)
    /\ UNCHANGED << workVars, timeVars, memVars, db, preload_queue,
                    is_preloading, executor_shutdown, cached_data, grid_data,
                    put_data, ret, oldest_key, seed_i, workerVars, served >>

\* A variant whose _update_memory_cache_access takes memory_cache_lock itself.
UpdateAccessLocksAgain == TRUE

\* _update_memory_cache_access has no `with self.memory_cache_lock:` of its
\* own; it runs inside its caller's.
UpdateAccessLocks == FALSE

\* with self.memory_cache_lock: if cache_key in self.memory_cache: ... return
\* (threading.Lock is not reentrant: a holder that acquired it again would
\* wait for itself, at "mem_hit_wait", for ever)
MemCheck(t) ==
    /\ pc[t] = "mem_check"
    /\ MemoryLockFree
    /\ IF MemHas(memory_cache, cache_key[t])
       THEN IF UpdateAccessLocks
            THEN /\ memory_cache_lock' = memory_cache_lock \cup {t}
                 /\ pc' = [pc EXCEPT ![t] = "mem_hit_wait"]
                 /\ UNCHANGED << memory_cache, clock, ret >>
            ELSE /\ memory_cache' = _update_memory_cache_access(memory_cache,
                                                                cache_key[t], clock)
                 /\ clock' = clock + 1
                 /\ ret' = [ret EXCEPT ![t] = MemEntry(memory_cache, cache_key[t]).data]
                 /\ pc' = [pc EXCEPT ![t] = "done"]
                 /\ UNCHANGED memory_cache_lock
       ELSE /\ pc' = [pc EXCEPT ![t] = "db_check"]
            /\ UNCHANGED << memory_cache, memory_cache_lock, clock, ret >>
    /\ UNCHANGED << workVars, timeVars, cache_type, auditVars,
                    db, preload_queue, is_preloading,
                    executor_shutdown, req, force, cache_key, cached_data,
                    grid_data, put_data, oldest_key, seed_i, workerVars,
                    historyVars >>

\* A variant in which the store lookup never counts as a hit.
StoreHitNever(c) == FALSE

\* `if cached_data:` the store lookup is a hit
StoreHit(c) == GridTruthy(c)

\* cached_data = self.db_manager.get_cached_coverage_grid(cache_key)
\* if cached_data: (then) self._add_to_memory_cache(cache_key, cached_data)
DbCheck(t) ==
    /\ pc[t] = "db_check"
    /\ \E ok \in BOOLEAN :
        LET c == get_cached_coverage_grid(db, cache_key[t], ok)
        IN  /\ cached_data' = [cached_data EXCEPT ![t] = c]
            /\ db_last_accessed' = TouchRecord(db_last_accessed, cache_key[t], ok, utc_now)
            /\ store_failed' = [store_failed EXCEPT ![t] = @ \/ ~ok]
            /\ IF StoreHit(c)
               THEN /\ put_data' = [put_data EXCEPT ![t] = c]
                    /\ pc' = [pc EXCEPT ![t] = "mem_scan"]
               ELSE /\ pc' = [pc EXCEPT ![t] = "enqueue"]
                    /\ UNCHANGED put_data
    /\ UNCHANGED << workVars, clockVars, cache_type, at_begin, memVars, db,
                    preload_queue, is_preloading, executor_shutdown, req,
                    force, cache_key, grid_data, ret, oldest_key, seed_i,
                    workerVars, historyVars >>

\* self._add_to_preload_queue(...), then _calculate_coverage_grid is entered.
EnqueueAndCalc(t) ==
    /\ pc[t] = "enqueue"
    /\ preload_queue' =
          AddToPreloadQueue(preload_queue,
              CoverageGridTask(req[t].city_name, req[t].business_lines,
                  req[t].vendor_filters,
                  _calculate_priority(req[t].city_name, req[t].business_lines,
                                      req[t].vendor_filters)))
    /\ pc' = [pc EXCEPT ![t] = "calculating"]
    /\ computed' = [computed EXCEPT ![t] = TRUE]
    /\ UNCHANGED << workVars, timeVars, cache_type, auditVars, memVars, db,
                    is_preloading, executor_shutdown, localVars, workerVars,
                    prior, served, ncalls >>

\* A variant that caches whatever the engine returned.
AfterCalcAlwaysCache(g) == "db_store"

\* Where the call goes once the engine has returned grid_data: `if grid_data:`
AfterCalc(g) == IF GridTruthy(g) THEN "db_store" ELSE "done"

\* _calculate_coverage_grid returns.
CalcEnd(t) ==
    /\ pc[t] = "calculating"
    /\ \E g \in EngineResultsOf(workload) :
        /\ grid_data' = [grid_data EXCEPT ![t] = g]
        /\ pc' = [pc EXCEPT ![t] = AfterCalc(g)]
        /\ ret' = [ret EXCEPT ![t] = IF AfterCalc(g) = "done" THEN g ELSE @]
    /\ UNCHANGED << workVars, timeVars, cache_type, auditVars, memVars, db,
                    preload_queue, is_preloading, executor_shutdown, req,
                    force, cache_key, cached_data, put_data, oldest_key,
                    seed_i, workerVars, historyVars >>

\* self.db_manager.cache_coverage_grid(cache_key, ..., grid_data)
DbStore(t) ==
    /\ pc[t] = "db_store"
    /\ \E ok \in BOOLEAN :
        /\ db' = cache_coverage_grid(db, cache_key[t], grid_data[t], ok)
        /\ db_last_accessed' = StampRecord(db_last_accessed, cache_key[t], ok, utc_now)
        /\ store_failed' = [store_failed EXCEPT ![t] = @ \/ ~ok]
    /\ put_data' = [put_data EXCEPT ![t] = grid_data[t]]
    /\ pc' = [pc EXCEPT ![t] = "mem_scan"]
    /\ UNCHANGED << workVars, clockVars, cache_type, at_begin, memVars,
                    preload_queue, is_preloading, executor_shutdown, req,
                    force, cache_key, cached_data, grid_data, ret,
                    oldest_key, seed_i, workerVars, historyVars >>

\* _add_to_memory_cache, first half: the lock is taken and the scan is made.
MemScan(t) ==
    /\ pc[t] = "mem_scan"
    /\ MemoryLockFree
    /\ memory_cache_lock' = memory_cache_lock \cup {t}
    /\ oldest_key' = [oldest_key EXCEPT ![t] = EvictionScan(memory_cache)]
    /\ pc' = [pc EXCEPT ![t] = "mem_put"]
    /\ UNCHANGED << workVars, timeVars, cache_type, auditVars, memory_cache,
                    clock, db, preload_queue, is_preloading,
                    executor_shutdown, req, force, cache_key, cached_data,
                    grid_data, put_data, ret, seed_i, workerVars,
                    historyVars >>

\* _add_to_memory_cache, second half: delete, insert, release; the call returns.
MemPut(t) ==
    /\ pc[t] = "mem_put"
    /\ memory_cache' = MemPutEntry(memory_cache, oldest_key[t], cache_key[t],
                                   put_data[t], clock)
    /\ clock' = clock + 1
    /\ memory_cache_lock' = memory_cache_lock \ {t}
    /\ ret' = [ret EXCEPT ![t] = put_data[t]]
    /\ pc' = [pc EXCEPT ![t] = "done"]
    /\ UNCHANGED << workVars, timeVars, cache_type, auditVars, db,
                    preload_queue, is_preloading, executor_shutdown, req,
                    force, cache_key, cached_data, grid_data, put_data,
                    oldest_key, seed_i, workerVars, historyVars >>

\* The caller has the return value and leaves the call.
Return(t) ==
    /\ pc[t] = "done"
    /\ served' = [k \in DOMAIN served \cup {cache_key[t]} |->
                    IF k = cache_key[t] THEN [result |-> ret[t], force |-> force[t]]
                    ELSE served[k]]
    /\ pc' = [pc EXCEPT ![t] = IF warm_up[t].active THEN "warm_loop" ELSE "idle"]
    /\ warm_up' = [warm_up EXCEPT ![t].returned =
                      IF warm_up[t].active THEN Append(@, ret[t]) ELSE @]
    /\ req' = [req EXCEPT ![t] = NoRequest]
    /\ force' = [force EXCEPT ![t] = FALSE]
    /\ cache_key' = [cache_key EXCEPT ![t] = NoKey]
    /\ cached_data' = [cached_data EXCEPT ![t] = NoGrid]
    /\ grid_data' = [grid_data EXCEPT ![t] = NoGrid]
    /\ put_data' = [put_data EXCEPT ![t] = NoGrid]
    /\ ret' = [ret EXCEPT ![t] = NoGrid]
    /\ oldest_key' = [oldest_key EXCEPT ![t] = NoKey]
    /\ computed' = [computed EXCEPT ![t] = FALSE]
    /\ prior' = [prior EXCEPT ![t] = NoCall]
    /\ store_failed' = [store_failed EXCEPT ![t] = FALSE]
    /\ at_begin' = [at_begin EXCEPT ![t] = NoSnapshot]
    /\ UNCHANGED << keyVars, timeVars, cache_type, memVars, db,
                    preload_queue, is_preloading, executor_shutdown, seed_i,
                    workerVars, ncalls >>

(*************************************************************************)
(* get_cache_stats                                                       *)
(*************************************************************************)
\* get_cache_stats is called (in the "conc" workload, next to the callers of
\* get_or_calculate_coverage_grid).
StatsBegin(t) ==
    /\ workload = "conc"
    /\ CanBegin(t)
    /\ pc' = [pc EXCEPT ![t] = "stats_memory"]
    /\ ncalls' = ncalls + 1
    /\ cache_type' = [cache_type EXCEPT ![t] = NoCacheType]
    /\ UNCHANGED << workVars, timeVars, auditVars, memVars, db, preload_queue,
                    is_preloading, executor_shutdown, localVars, workerVars,
                    computed, prior, served >>

\* Its three sections, one after the other: `with self.memory_cache_lock:`
\* (size and keys), `with self.queue_lock:` (pending tasks, is_preloading),
\* and the two SELECTs of the store, whose errors are caught. It reads only.
StatsStep(t) ==
    /\ pc[t] \in {"stats_memory", "stats_queue", "stats_db"}
    /\ pc[t] = "stats_memory" => MemoryLockFree
    /\ pc' = [pc EXCEPT ![t] = CASE pc[t] = "stats_memory" -> "stats_queue"
                                  [] pc[t] = "stats_queue" -> "stats_db"
                                  [] OTHER -> "idle"]
    /\ UNCHANGED << workVars, timeVars, cache_type, auditVars, memVars, db,
                    preload_queue, is_preloading, executor_shutdown, localVars,
                    workerVars, historyVars >>

(*************************************************************************)
(* warm_up_cache                                                         *)
(*************************************************************************)
\* warm_up_cache(priority_cities) is called: the default, the list
\* high_priority_combos.
WarmUpBegin(t) ==
    /\ workload = "warmup"
    /\ CanBegin(t)
    /\ \E cities \in PriorityCitiesInputs :
          warm_up' = [warm_up EXCEPT ![t] =
                        [active |-> TRUE, priority_cities |-> cities,
                         todo |-> HighPriorityCombos(WarmUpCombinations,
                                                     DefaultCities(cities)),
                         begun |-> <<>>, returned |-> <<>>]]
    /\ pc' = [pc EXCEPT ![t] = "warm_loop"]
    /\ ncalls' = ncalls + 1
    /\ cache_type' = [cache_type EXCEPT ![t] = NoCacheType]
    /\ UNCHANGED << keyVars, timeVars, auditVars, memVars, db, preload_queue,
                    is_preloading, executor_shutdown, localVars, workerVars,
                    computed, prior, served >>

\* for combo in high_priority_combos: try: self.get_or_calculate_coverage_grid(
\* combo['city_name'], combo['business_lines'], combo['vendor_filters'])
\* - the call begins (force_recalculate keeps its default); after the last
\* combination warm_up_cache returns.
WarmUpLoop(t) ==
    /\ pc[t] = "warm_loop"
    /\ IF warm_up[t].todo # <<>>
       THEN LET combo == Head(warm_up[t].todo)
                r == Request(combo.city_name, combo.business_lines,
                             combo.vendor_filters)
            IN  /\ warm_up' = [warm_up EXCEPT ![t].todo = Tail(@),
                                              ![t].begun = Append(@, r)]
                /\ req' = [req EXCEPT ![t] = r]
                /\ force' = [force EXCEPT ![t] = FALSE]
                /\ cache_key' = [cache_key EXCEPT ![t] = RequestKey(r)]
                /\ pc' = [pc EXCEPT ![t] = IF UseCaches(FALSE) THEN "mem_check"
                                            ELSE "enqueue"]
                /\ prior' = [prior EXCEPT ![t] =
                                IF RequestKey(r) \in DOMAIN served
                                THEN served[RequestKey(r)] ELSE NoCall]
                /\ at_begin' = [at_begin EXCEPT ![t] =
                                   Snapshot(memory_cache, db, RequestKey(r),
                                            executor_shutdown)]
       ELSE /\ warm_up' = [warm_up EXCEPT ![t].active = FALSE]
            /\ pc' = [pc EXCEPT ![t] = "idle"]
            /\ UNCHANGED << req, force, cache_key, prior, at_begin >>
    /\ computed' = [computed EXCEPT ![t] = FALSE]
    /\ store_failed' = [store_failed EXCEPT ![t] = FALSE]
    /\ UNCHANGED << keyVars, timeVars, cache_type, memVars, db, preload_queue,
                    is_preloading, executor_shutdown, cached_data, grid_data,
                    put_data, ret, oldest_key, seed_i, workerVars, served, ncalls >>

\* One warm-up call, start to end with nothing else running: a full miss
\* (the key is new), the enqueue, a computed grid, the write to the store and
\* the insertion into the memory cache.
WarmCall ==
    /\ warm_left > 0
    /\ LET n == WarmEntries - warm_left + 1
           r == WarmRequest(n)
       IN  /\ preload_queue' =
                 AddToPreloadQueue(preload_queue,
                     CoverageGridTask(r.city_name, r.business_lines, r.vendor_filters,
                         _calculate_priority(r.city_name, r.business_lines,
                                             r.vendor_filters)))
           /\ db' = cache_coverage_grid(db, RequestKey(r), "g1", TRUE)
           /\ db_last_accessed' = StampRecord(db_last_accessed, RequestKey(r), TRUE, utc_now)
           /\ memory_cache' = MemPutEntry(memory_cache, EvictionScan(memory_cache),
                                          RequestKey(r), "g1", clock)
           /\ served' = [k \in DOMAIN served \cup {RequestKey(r)} |->
                           IF k = RequestKey(r)
                           THEN [result |-> "g1", force |-> FALSE]
                           ELSE served[k]]
    /\ clock' = clock + 1
    /\ warm_left' = warm_left - 1
    /\ UNCHANGED << memory_cache_lock, is_preloading, executor_shutdown, pc,
                    localVars, workerVars, computed, prior, ncalls, workload,
                    key_in, key_out, priority, warm_up, clockVars, cache_type,
                    auditVars >>

(*************************************************************************)
(* clear_cache                                                           *)
(*************************************************************************)
\* A variant in which "all" leaves the memory cache out.
ClearsMemoryNotAll(ct) == ct = "memory"

\* A variant that clears the memory cache whatever cache_type is.
ClearsMemoryAlways(ct) == TRUE

\* if cache_type in ("all", "memory"):
ClearsMemory(ct) == ct \in {"all", "memory"}

\* A variant that deletes the table whatever cache_type is.
ClearsDatabaseAlways(ct) == TRUE

\* if cache_type in ("all", "database"):
ClearsDatabase(ct) == ct \in {"all", "database"}

\* clear_cache(cache_type) is called.
ClearBegin(t) ==
    /\ CanBegin(t)
    /\ \E ct \in CacheTypes : cache_type' = [cache_type EXCEPT ![t] = ct]
    /\ pc' = [pc EXCEPT ![t] = "clear_memory"]
    /\ store_failed' = [store_failed EXCEPT ![t] = FALSE]
    /\ ncalls' = ncalls + 1
    /\ UNCHANGED << workVars, timeVars, at_begin, memVars, db, preload_queue,
                    is_preloading, executor_shutdown, localVars, workerVars,
                    computed, prior, served >>

\* if cache_type in ("all", "memory"):
\*     with self.memory_cache_lock: self.memory_cache.clear()
ClearMemory(t) ==
    /\ pc[t] = "clear_memory"
    /\ IF ClearsMemory(cache_type[t])
       THEN /\ MemoryLockFree
            /\ memory_cache' = <<>>
       ELSE UNCHANGED memory_cache
    /\ pc' = [pc EXCEPT ![t] = "clear_database"]
    /\ UNCHANGED << workVars, timeVars, cache_type, auditVars, memory_cache_lock, clock,
                    db, preload_queue, is_preloading, executor_shutdown, localVars,
                    workerVars, historyVars >>

\* conn.execute("DELETE FROM coverage_grid_cache"); an exception is logged and
\* leaves the table as it was.
DeleteAll(table, ok) == IF ok THEN <<>> ELSE table

\* if cache_type in ("all", "database"): try: DELETE ... except: logger.error
\* and clear_cache returns.
ClearDatabase(t) ==
    /\ pc[t] = "clear_database"
    /\ IF ClearsDatabase(cache_type[t])
       THEN \E ok \in BOOLEAN :
                /\ db' = DeleteAll(db, ok)
                /\ db_last_accessed' = DeleteAll(db_last_accessed, ok)
                /\ store_failed' = [store_failed EXCEPT ![t] = ~ok]
       ELSE UNCHANGED << db, db_last_accessed, store_failed >>
    /\ pc' = [pc EXCEPT ![t] = "idle"]
    /\ UNCHANGED << workVars, clockVars, cache_type, at_begin, memVars, preload_queue,
                    is_preloading, executor_shutdown, localVars, workerVars,
                    historyVars >>

(*************************************************************************)
(* cleanup_old_cache and the passing of time                             *)
(*************************************************************************)
\* Half a day passes. Calls are short against a tick: time advances while no
\* call is in progress.
Tick ==
    /\ workload = "cleanup"
    /\ utc_now < MaxTime
    /\ \A t \in Threads : pc[t] = "idle"
    /\ utc_now' = utc_now + 1
    /\ UNCHANGED << workVars, db_last_accessed, tz_offset, cleanup, cache_type,
                    auditVars, memVars, db, preload_queue, is_preloading,
                    executor_shutdown, pc, localVars, workerVars, historyVars >>

\* cleanup_old_cache(days_old) is called:
\* cutoff_date = datetime.now() - timedelta(days=days_old)
CleanupBegin(t) ==
    /\ workload = "cleanup"
    /\ pc[t] = "idle"
    /\ t \in Callers(workload)
    /\ \E d \in DaysOldValues :
          cleanup' = [cleanup EXCEPT ![t] =
                        [days_old |-> d,
                         cutoff_date |-> CutoffDate(utc_now, tz_offset, d)]]
    /\ pc' = [pc EXCEPT ![t] = "cleanup_delete"]
    /\ store_failed' = [store_failed EXCEPT ![t] = FALSE]
    /\ cache_type' = [cache_type EXCEPT ![t] = NoCacheType]
    /\ UNCHANGED << workVars, db_last_accessed, utc_now, tz_offset, at_begin,
                    memVars, db, preload_queue, is_preloading, executor_shutdown,
                    localVars, workerVars, historyVars >>

\* with self.get_connection() as conn: DELETE ... WHERE last_accessed < ?;
\* conn.commit(). An exception rolls back and propagates to the caller.
CleanupDelete(t) ==
    /\ pc[t] = "cleanup_delete"
    /\ \E ok \in BOOLEAN :
          /\ db' = DeleteOld(db, db_last_accessed, cleanup[t].cutoff_date, ok)
          /\ db_last_accessed' =
                DeleteOld(db_last_accessed, db_last_accessed,
                          cleanup[t].cutoff_date, ok)
          /\ store_failed' = [store_failed EXCEPT ![t] = ~ok]
    /\ cleanup' = [cleanup EXCEPT ![t] = NoCleanup]
    /\ pc' = [pc EXCEPT ![t] = "idle"]
    /\ UNCHANGED << workVars, utc_now, tz_offset, cache_type, at_begin, memVars,
                    preload_queue, is_preloading, executor_shutdown, localVars,
                    workerVars, historyVars >>

(*************************************************************************)
(* start_preloading / stop_preloading                                    *)
(*************************************************************************)
\* A variant that never finds preloading in progress.
AlreadyPreloadingNever(flag) == FALSE

\* if self.is_preloading:
AlreadyPreloading(flag) == flag

\* start_preloading is called: if self.is_preloading: (warn and return)
StartCheck(t) ==
    /\ CanBeginAs(t, Control(workload))
    /\ ncalls' = CountCall(workload, ncalls)
    /\ pc' = [pc EXCEPT ![t] = IF AlreadyPreloading(is_preloading)
                                THEN "sp_warned" ELSE "sp_set"]
    /\ UNCHANGED << workVars, timeVars, cache_type, auditVars, memVars, db,
                    preload_queue, is_preloading, executor_shutdown,
                    localVars, workerVars, computed, prior, served >>

\* logger.warning("Preloading already in progress"); return
StartWarned(t) ==
    /\ pc[t] = "sp_warned"
    /\ pc' = [pc EXCEPT ![t] = "idle"]
    /\ UNCHANGED << workVars, timeVars, cache_type, auditVars, memVars, db,
                    preload_queue, is_preloading, executor_shutdown, localVars,
                    workerVars, historyVars >>

\* self.is_preloading = True
StartSet(t) ==
    /\ pc[t] = "sp_set"
    /\ is_preloading' = TRUE
    /\ seed_i' = [seed_i EXCEPT ![t] = 1]
    /\ pc' = [pc EXCEPT ![t] = "sp_seed"]
    /\ UNCHANGED << workVars, timeVars, cache_type, auditVars, memVars, db,
                    preload_queue, executor_shutdown, req, force, cache_key,
                    cached_data, grid_data, put_data, ret, oldest_key,
                    workerVars, historyVars >>

\* What one turn of the seeding loop does to the queue:
\* with self.queue_lock: self.preload_queue.append(task)
SeedAppend(q, task) == Append(q, task)

\* for combo in self.common_combinations: ... (one turn, or the loop's end)
StartSeed(t) ==
    /\ pc[t] = "sp_seed"
    /\ IF seed_i[t] <= Len(SeedCombinations)
       THEN /\ preload_queue' = SeedAppend(preload_queue, SeedCombinations[seed_i[t]])
            /\ seed_i' = [seed_i EXCEPT ![t] = @ + 1]
            /\ pc' = pc
       ELSE /\ seed_i' = [seed_i EXCEPT ![t] = 0]
            /\ pc' = [pc EXCEPT ![t] = "sp_sort"]
            /\ UNCHANGED preload_queue
    /\ UNCHANGED << workVars, timeVars, cache_type, auditVars, memVars, db,
                    is_preloading, executor_shutdown, req, force, cache_key,
                    cached_data, grid_data, put_data, ret, oldest_key,
                    workerVars, historyVars >>

\* with self.queue_lock: self.preload_queue.sort(key=lambda x: x.priority)
StartSort(t) ==
    /\ pc[t] = "sp_sort"
    /\ preload_queue' = SortByPriority(preload_queue)
    /\ pc' = [pc EXCEPT ![t] = "sp_submit"]
    /\ UNCHANGED << workVars, timeVars, cache_type, auditVars, memVars, db,
                    is_preloading, executor_shutdown, localVars, workerVars,
                    historyVars >>

FreeWorkers == {w \in Workers : wpc[w] = "free"}

\* A variant whose executor accepts work after shutdown().
SubmitRunsAlways(shutdown) == TRUE

\* ThreadPoolExecutor.submit: RuntimeError once shutdown() was called.
SubmitRuns(shutdown) == ~shutdown

\* self.preload_executor.submit(self._preload_worker): after shutdown() submit
\* raises RuntimeError and the call ends; otherwise a pool thread runs the loop
\* (with every pool thread busy the work item would wait in the executor).
StartSubmit(t) ==
    /\ pc[t] = "sp_submit"
    /\ IF SubmitRuns(executor_shutdown) /\ FreeWorkers # {}
       THEN wpc' = [wpc EXCEPT ![CHOOSE w \in FreeWorkers :
                                   \A v \in FreeWorkers : w <= v] = "loop"]
       ELSE UNCHANGED wpc
    /\ pc' = [pc EXCEPT ![t] = "idle"]
    /\ UNCHANGED << workVars, timeVars, cache_type, auditVars, memVars, db,
                    preload_queue, is_preloading, executor_shutdown,
                    localVars, wtask, wcached, wgrid, historyVars >>

\* stop_preloading: self.is_preloading = False
StopFlag(t) ==
    /\ CanBeginAs(t, Control(workload))
    /\ ncalls' = ncalls + 1
    /\ is_preloading' = FALSE
    /\ pc' = [pc EXCEPT ![t] = "stop_shutdown"]
    /\ UNCHANGED << workVars, timeVars, cache_type, auditVars, memVars, db,
                    preload_queue, executor_shutdown, localVars, workerVars,
                    computed, prior, served >>

\* stop_preloading: self.preload_executor.shutdown(wait=False)
StopShutdown(t) ==
    /\ pc[t] = "stop_shutdown"
    /\ executor_shutdown' = TRUE
    /\ pc' = [pc EXCEPT ![t] = "idle"]
    /\ UNCHANGED << workVars, timeVars, cache_type, auditVars, memVars, db,
                    preload_queue, is_preloading, localVars, workerVars,
                    historyVars >>

(*************************************************************************)
(* _preload_worker                                                       *)
(*************************************************************************)
\* A variant whose loop never ends.
KeepsLoopingAlways(flag) == TRUE

\* while self.is_preloading:
KeepsLooping(flag) == flag

\* The iteration boundary: the loop's test, and the function's end when it
\* fails.
WorkerLoop(w) ==
    /\ wpc[w] = "loop"
    /\ wpc' = [wpc EXCEPT ![w] = IF KeepsLooping(is_preloading) THEN "pop"
                                  ELSE "free"]
    /\ UNCHANGED << workVars, timeVars, cache_type, auditVars, memVars, db,
                    preload_queue, is_preloading, executor_shutdown, pc,
                    localVars, wtask, wcached, wgrid, historyVars >>

\* with self.queue_lock: if self.preload_queue: task = self.preload_queue.pop(0)
\* (no task: time.sleep(10) and the next turn of the loop)
WorkerPop(w) ==
    /\ wpc[w] = "pop"
    /\ IF preload_queue # <<>>
       THEN /\ wtask' = [wtask EXCEPT ![w] = Head(preload_queue)]
            /\ preload_queue' = Tail(preload_queue)
            /\ wpc' = [wpc EXCEPT ![w] = "check"]
       ELSE /\ wpc' = [wpc EXCEPT ![w] = "loop"]
            /\ UNCHANGED << wtask, preload_queue >>
    /\ UNCHANGED << workVars, timeVars, cache_type, auditVars, memVars, db,
                    is_preloading, executor_shutdown, pc, localVars, wcached,
                    wgrid, historyVars >>

\* if not self.db_manager.get_cached_coverage_grid(cache_key): (compute)
\* else: time.sleep(2) and the next turn of the loop
WorkerCheck(w) ==
    /\ wpc[w] = "check"
    /\ \E ok \in BOOLEAN :
        LET c == get_cached_coverage_grid(db, TaskKey(wtask[w]), ok)
        IN  /\ db_last_accessed' =
                   TouchRecord(db_last_accessed, TaskKey(wtask[w]), ok, utc_now)
            /\ IF ~StoreHit(c)
               THEN /\ wpc' = [wpc EXCEPT ![w] = "calculating"]
                    /\ wcached' = [wcached EXCEPT ![w] = c]
                    /\ UNCHANGED wtask
               ELSE /\ wpc' = [wpc EXCEPT ![w] = "loop"]
                    /\ wtask' = [wtask EXCEPT ![w] = NoTask]
                    /\ UNCHANGED wcached
    /\ UNCHANGED << workVars, clockVars, cache_type, auditVars, memVars, db,
                    preload_queue, is_preloading, executor_shutdown, pc,
                    localVars, wgrid, historyVars >>

\* A variant that retries: a failed task goes back to the end of the queue.
QueueAfterFailureRetry(q, task) == Append(q, task)

\* What a failed task leaves of the queue: the failure is logged and the loop
\* goes on (`except Exception as e: logger.error(...)`, and the errors the
\* engine and the store swallow themselves); nothing is appended.
QueueAfterFailure(q, task) == q

\* A variant in which a failed task ends the worker loop.
WorkerAfterTaskDies(failed) == IF failed THEN "free" ELSE "loop"

\* Where the loop goes when a task is over, failed or not: the except clause
\* only logs, then time.sleep(2) and the loop's test.
WorkerAfterTask(failed) == "loop"

\* The worker's local grid_data is dead once `if grid_data:` has been decided
\* falsy; it is kept (until the worker's next engine call) in the workloads
\* whose properties tell an empty result from a failure, and forgotten in
\* the others.
KeepsWorkerResult(load) == load \in {"preload"}

\* grid_data = self._calculate_coverage_grid(...) returns; `if grid_data:`
WorkerCalcEnd(w) ==
    /\ wpc[w] = "calculating"
    /\ \E g \in EngineResultsOf(workload) :
        /\ IF GridTruthy(g)
           THEN /\ wgrid' = [wgrid EXCEPT ![w] = g]
                /\ wpc' = [wpc EXCEPT ![w] = "store"]
                /\ UNCHANGED wtask
           ELSE /\ wpc' = [wpc EXCEPT ![w] = WorkerAfterTask(g = "None")]
                /\ wtask' = [wtask EXCEPT ![w] = NoTask]
                /\ wgrid' = [wgrid EXCEPT ![w] =
                                IF KeepsWorkerResult(workload) THEN g ELSE @]
        /\ preload_queue' = IF g = "None"
                            THEN QueueAfterFailure(preload_queue, wtask[w])
                            ELSE preload_queue
    /\ wcached' = [wcached EXCEPT ![w] = NoGrid]
    /\ UNCHANGED << workVars, timeVars, cache_type, auditVars, memVars, db,
                    is_preloading, executor_shutdown, pc, localVars,
                    historyVars >>

\* A variant that pre-warms: the worker inserts what it stored.
MemoryAfterPreloadWarmed(mc, key, d) == MemPutEntry(mc, EvictionScan(mc), key, d, 0)

\* What the worker's store branch does to the memory cache: it has no
\* _add_to_memory_cache call, the dict is left alone.
MemoryAfterPreload(mc, key, d) == mc

\* self.db_manager.cache_coverage_grid(cache_key, ..., grid_data); time.sleep(2)
WorkerStore(w) ==
    /\ wpc[w] = "store"
    /\ \E ok \in BOOLEAN :
        /\ db' = cache_coverage_grid(db, TaskKey(wtask[w]), wgrid[w], ok)
        /\ db_last_accessed' =
              StampRecord(db_last_accessed, TaskKey(wtask[w]), ok, utc_now)
        /\ preload_queue' = IF ok THEN preload_queue
                            ELSE QueueAfterFailure(preload_queue, wtask[w])
        /\ wpc' = [wpc EXCEPT ![w] = WorkerAfterTask(~ok)]
    /\ wtask' = [wtask EXCEPT ![w] = NoTask]
    /\ wgrid' = [wgrid EXCEPT ![w] = NoGrid]
    /\ memory_cache' = MemoryAfterPreload(memory_cache, TaskKey(wtask[w]), wgrid[w])
    /\ UNCHANGED << workVars, clockVars, cache_type, auditVars,
                    memory_cache_lock, clock, wcached, is_preloading,
                    executor_shutdown, pc, localVars, historyVars >>

(*************************************************************************)
(* The specification                                                     *)
(*************************************************************************)
Next ==
    \/ \E t \in Threads : GetBegin(t)
    \/ \E t \in Threads : MemCheck(t)
    \/ \E t \in Threads : DbCheck(t)
    \/ \E t \in Threads : EnqueueAndCalc(t)
    \/ \E t \in Threads : CalcEnd(t)
    \/ \E t \in Threads : DbStore(t)
    \/ \E t \in Threads : MemScan(t)
    \/ \E t \in Threads : MemPut(t)
    \/ \E t \in Threads : Return(t)
    \/ \E t \in Threads : StartCheck(t)
    \/ \E t \in Threads : StartWarned(t)
    \/ \E t \in Threads : StartSet(t)
    \/ \E t \in Threads : StartSeed(t)
    \/ \E t \in Threads : StartSort(t)
    \/ \E t \in Threads : StartSubmit(t)
    \/ \E t \in Threads : StopFlag(t)
    \/ \E t \in Threads : StopShutdown(t)
    \/ \E w \in Workers : WorkerLoop(w)
    \/ \E w \in Workers : WorkerPop(w)
    \/ \E w \in Workers : WorkerCheck(w)
    \/ \E w \in Workers : WorkerCalcEnd(w)
    \/ \E w \in Workers : WorkerStore(w)

Spec == Init /\ [][Next]_vars

\* A request thread calling get_or_calculate_coverage_grid while another
\* thread starts and stops the preloading and the worker loops run.
NextStop ==
    \/ \E t \in Threads : GetBegin(t)
    \/ \E t \in Threads : MemCheck(t)
    \/ \E t \in Threads : DbCheck(t)
    \/ \E t \in Threads : EnqueueAndCalc(t)
    \/ \E t \in Threads : CalcEnd(t)
    \/ \E t \in Threads : DbStore(t)
    \/ \E t \in Threads : MemScan(t)
    \/ \E t \in Threads : MemPut(t)
    \/ \E t \in Threads : Return(t)
    \/ \E t \in Threads : StartCheck(t)
    \/ \E t \in Threads : StartWarned(t)
    \/ \E t \in Threads : StartSet(t)
    \/ \E t \in Threads : StartSeed(t)
    \/ \E t \in Threads : StartSort(t)
    \/ \E t \in Threads : StartSubmit(t)
    \/ \E t \in Threads : StopFlag(t)
    \/ \E t \in Threads : StopShutdown(t)
    \/ \E w \in Workers : WorkerLoop(w)
    \/ \E w \in Workers : WorkerPop(w)
    \/ \E w \in Workers : WorkerCheck(w)
    \/ \E w \in Workers : WorkerCalcEnd(w)
    \/ \E w \in Workers : WorkerStore(w)

SpecStop == InitStop /\ [][NextStop]_vars

\* One caller making a miss, starting, stopping and starting the preloading
\* again, while the worker loops run.
NextRestart ==
    \/ \E t \in Threads : GetBegin(t)
    \/ \E t \in Threads : MemCheck(t)
    \/ \E t \in Threads : DbCheck(t)
    \/ \E t \in Threads : EnqueueAndCalc(t)
    \/ \E t \in Threads : CalcEnd(t)
    \/ \E t \in Threads : DbStore(t)
    \/ \E t \in Threads : MemScan(t)
    \/ \E t \in Threads : MemPut(t)
    \/ \E t \in Threads : Return(t)
    \/ \E t \in Threads : StartCheck(t)
    \/ \E t \in Threads : StartWarned(t)
    \/ \E t \in Threads : StartSet(t)
    \/ \E t \in Threads : StartSeed(t)
    \/ \E t \in Threads : StartSort(t)
    \/ \E t \in Threads : StartSubmit(t)
    \/ \E t \in Threads : StopFlag(t)
    \/ \E t \in Threads : StopShutdown(t)
    \/ \E w \in Workers : WorkerLoop(w)
    \/ \E w \in Workers : WorkerPop(w)
    \/ \E w \in Workers : WorkerCheck(w)
    \/ \E w \in Workers : WorkerCalcEnd(w)
    \/ \E w \in Workers : WorkerStore(w)

SpecRestart == InitRestart /\ [][NextRestart]_vars

\* Two concurrent callers of get_or_calculate_coverage_grid for one key,
\* start_preloading and stop_preloading, with the worker loops, while the
\* engine's result for the key changes.
SpecFresh == InitFresh /\ [][Next]_vars

\* One caller of get_or_calculate_coverage_grid and warm_up_cache, one call
\* after the other, no preloading.
NextWarmUp ==
    \/ \E t \in Threads : GetBegin(t)
    \/ \E t \in Threads : MemCheck(t)
    \/ \E t \in Threads : DbCheck(t)
    \/ \E t \in Threads : EnqueueAndCalc(t)
    \/ \E t \in Threads : CalcEnd(t)
    \/ \E t \in Threads : DbStore(t)
    \/ \E t \in Threads : MemScan(t)
    \/ \E t \in Threads : MemPut(t)
    \/ \E t \in Threads : Return(t)
    \/ \E t \in Threads : WarmUpBegin(t)
    \/ \E t \in Threads : WarmUpLoop(t)

SpecWarmUp == InitWarmUp /\ [][NextWarmUp]_vars

\* One turn of a pool thread running _preload_worker.
WorkerStep(w) ==
    \/ WorkerLoop(w)
    \/ WorkerPop(w)
    \/ WorkerCheck(w)
    \/ WorkerCalcEnd(w)
    \/ WorkerStore(w)

\* One caller of start_preloading and stop_preloading, one call after the
\* other, while the worker loops run.
NextPreload ==
    \/ \E t \in Threads : StartCheck(t)
    \/ \E t \in Threads : StartWarned(t)
    \/ \E t \in Threads : StartSet(t)
    \/ \E t \in Threads : StartSeed(t)
    \/ \E t \in Threads : StartSort(t)
    \/ \E t \in Threads : StartSubmit(t)
    \/ \E t \in Threads : StopFlag(t)
    \/ \E t \in Threads : StopShutdown(t)
    \/ \E w \in Workers : WorkerLoop(w)
    \/ \E w \in Workers : WorkerPop(w)
    \/ \E w \in Workers : WorkerCheck(w)
    \/ \E w \in Workers : WorkerCalcEnd(w)
    \/ \E w \in Workers : WorkerStore(w)

\* The pool's threads are scheduled fairly, the engine and the store return
\* and the sleeps end: a worker loop that can take a turn takes it.
SpecPreload ==
    /\ InitPreload
    /\ [][NextPreload]_vars
    /\ \A w \in Workers : WF_vars(WorkerStep(w))

\* One caller that goes on calling get_or_calculate_coverage_grid and
\* start_preloading for ever while the worker loops run; no call finds data.
NextSteady ==
    \/ \E t \in Threads : GetBegin(t)
    \/ \E t \in Threads : MemCheck(t)
    \/ \E t \in Threads : DbCheck(t)
    \/ \E t \in Threads : EnqueueAndCalc(t)
    \/ \E t \in Threads : CalcEnd(t)
    \/ \E t \in Threads : Return(t)
    \/ \E t \in Threads : StartCheck(t)
    \/ \E t \in Threads : StartWarned(t)
    \/ \E t \in Threads : StartSet(t)
    \/ \E t \in Threads : StartSeed(t)
    \/ \E t \in Threads : StartSort(t)
    \/ \E t \in Threads : StartSubmit(t)
    \/ \E w \in Workers : WorkerLoop(w)
    \/ \E w \in Workers : WorkerPop(w)
    \/ \E w \in Workers : WorkerCheck(w)
    \/ \E w \in Workers : WorkerCalcEnd(w)

\* A call the caller has begun runs to its end (the engine and the store
\* return); the caller may stop calling at any time. The enqueue step has no
\* guard but the thread's position, its fairness is stated on the position.
CallStep(t) ==
    \/ MemCheck(t)
    \/ DbCheck(t)
    \/ CalcEnd(t)
    \/ Return(t)
    \/ StartWarned(t)
    \/ StartSet(t)
    \/ StartSeed(t)
    \/ StartSort(t)
    \/ StartSubmit(t)

SpecSteady ==
    /\ InitSteady
    /\ [][NextSteady]_vars
    /\ \A w \in Workers : WF_vars(WorkerStep(w))
    /\ \A t \in Threads : WF_vars(CallStep(t))
    /\ \A t \in Threads : []<>(pc[t] # "enqueue")

\* Two concurrent callers of get_or_calculate_coverage_grid, no preloading.
NextConc ==
    \/ \E t \in Threads : GetBegin(t)
    \/ \E t \in Threads : MemCheck(t)
    \/ \E t \in Threads : DbCheck(t)
    \/ \E t \in Threads : EnqueueAndCalc(t)
    \/ \E t \in Threads : CalcEnd(t)
    \/ \E t \in Threads : DbStore(t)
    \/ \E t \in Threads : MemScan(t)
    \/ \E t \in Threads : MemPut(t)
    \/ \E t \in Threads : Return(t)
    \/ \E t \in Threads : StatsBegin(t)
    \/ \E t \in Threads : StatsStep(t)

SpecConc == InitConc /\ [][NextConc]_vars

\* The warm workload: the same callers on a memory cache that is full.
NextWarm ==
    \/ WarmCall
    \/ \E t \in Threads : GetBegin(t)
    \/ \E t \in Threads : MemCheck(t)
    \/ \E t \in Threads : DbCheck(t)
    \/ \E t \in Threads : EnqueueAndCalc(t)
    \/ \E t \in Threads : CalcEnd(t)
    \/ \E t \in Threads : DbStore(t)
    \/ \E t \in Threads : MemScan(t)
    \/ \E t \in Threads : MemPut(t)
    \/ \E t \in Threads : Return(t)

SpecWarm == InitWarm /\ [][NextWarm]_vars

\* One caller of get_or_calculate_coverage_grid and clear_cache, one call
\* after the other, no preloading.
NextClear ==
    \/ \E t \in Threads : GetBegin(t)
    \/ \E t \in Threads : MemCheck(t)
    \/ \E t \in Threads : DbCheck(t)
    \/ \E t \in Threads : EnqueueAndCalc(t)
    \/ \E t \in Threads : CalcEnd(t)
    \/ \E t \in Threads : DbStore(t)
    \/ \E t \in Threads : MemScan(t)
    \/ \E t \in Threads : MemPut(t)
    \/ \E t \in Threads : Return(t)
    \/ \E t \in Threads : ClearBegin(t)
    \/ \E t \in Threads : ClearMemory(t)
    \/ \E t \in Threads : ClearDatabase(t)

SpecClear == InitClear /\ [][NextClear]_vars

\* One caller of get_or_calculate_coverage_grid, clear_cache and
\* cleanup_old_cache, one call after the other, while time passes.
NextCleanup ==
    \/ \E t \in Threads : GetBegin(t)
    \/ \E t \in Threads : MemCheck(t)
    \/ \E t \in Threads : DbCheck(t)
    \/ \E t \in Threads : EnqueueAndCalc(t)
    \/ \E t \in Threads : CalcEnd(t)
    \/ \E t \in Threads : DbStore(t)
    \/ \E t \in Threads : MemScan(t)
    \/ \E t \in Threads : MemPut(t)
    \/ \E t \in Threads : Return(t)
    \/ \E t \in Threads : ClearBegin(t)
    \/ \E t \in Threads : ClearMemory(t)
    \/ \E t \in Threads : ClearDatabase(t)
    \/ Tick
    \/ \E t \in Threads : CleanupBegin(t)
    \/ \E t \in Threads : CleanupDelete(t)

SpecCleanup == InitCleanup /\ [][NextCleanup]_vars

\* generate_cache_key on its own, applied to two argument tuples.
DeriveKeys ==
    /\ workload = "keys"
    /\ key_out = <<NoKey, NoKey>>
    /\ key_out' = <<KeyArgsKey(key_in[1]), KeyArgsKey(key_in[2])>>
    /\ UNCHANGED << memVars, db, preload_queue, is_preloading, executor_shutdown,
                    pc, localVars, workerVars, historyVars, workload, warm_left,
                    key_in, priority, warm_up, timeVars, cache_type, auditVars >>

\* _add_to_preload_queue on its own, applied to the first argument tuple:
\* the task is built with priority=self._calculate_priority(...) and, under
\* the queue lock, appended unless its key is queued. With business_lines or
\* vendor_filters None, _calculate_priority raises (`in` on None, None.get).
DerivePriority ==
    /\ workload = "keys"
    /\ priority = NoPriority
    /\ LET a == key_in[1]
       IN  IF a.business_lines[1] = "list" /\ a.vendor_filters[1] = "dict"
           THEN LET p == _calculate_priority(a.city_name, a.business_lines[2],
                                             a.vendor_filters)
                IN  /\ priority' = p
                    /\ preload_queue' =
                          AddToPreloadQueue(preload_queue,
                              CoverageGridTask(a.city_name, a.business_lines[2],
                                               a.vendor_filters, p))
           ELSE /\ priority' = PriorityRaised
                /\ UNCHANGED preload_queue
    /\ UNCHANGED << memVars, db, is_preloading, executor_shutdown, pc, localVars,
                    workerVars, historyVars, workload, warm_left, key_in, key_out,
                    warm_up, timeVars, cache_type, auditVars >>

NextKeys ==
    \/ DeriveKeys
    \/ DerivePriority

SpecKeys == InitKeys /\ [][NextKeys]_vars


(*************************************************************************)
(* Properties                                                            *)
(*************************************************************************)
\* The engine invocations in flight for key k: foreground calls and workers.
InFlight(k) ==
    {<<"call", t>> : t \in {u \in Threads : pc[u] = "calculating" /\ cache_key[u] = k}}
    \cup
    {<<"worker", w>> : w \in {v \in Workers : wpc[v] = "calculating"
                                             /\ TaskKey(wtask[v]) = k}}

AllKeys ==
    {RequestKey(r) : r \in Requests} \cup {TaskKey(SeedCombinations[i]) :
                                            i \in DOMAIN SeedCombinations}

\* C1: a call with force_recalculate = FALSE that begins after a call with the
\* same arguments and force_recalculate = FALSE has completed with a result
\* does not invoke the engine and returns that same result.
C1_CacheCoherent ==
    \A t \in Threads :
        (~force[t] /\ ~prior[t].force /\ prior[t].result \notin {NoGrid, "None"}
         /\ pc[t] # "idle")
            => /\ ~computed[t]
               /\ pc[t] = "done" => ret[t] = prior[t].result

\* C2: after a call with force_recalculate = FALSE has returned the empty
\* result for a key, a following call for that key with force_recalculate =
\* FALSE does not invoke the engine again (one invocation for the two calls),
\* and it returns the empty result.
C2_EmptyResultCached ==
    \A t \in Threads :
        (~force[t] /\ prior[t] = [result |-> "[]", force |-> FALSE] /\ pc[t] = "done")
            => ~computed[t] /\ ret[t] = "[]"

\* C3: a call with force_recalculate = TRUE never consults either cache and
\* has invoked the engine when it ends, whatever the two tiers hold.
C3_ForceAlwaysComputes ==
    \A t \in Threads :
        force[t] => /\ pc[t] \notin {"mem_check", "db_check"}
                    /\ pc[t] \in {"calculating", "db_store", "mem_scan", "mem_put",
                                  "done"} => computed[t]

C3_Witness ==
    \E t \in Threads :
        /\ force[t] /\ pc[t] = "done" /\ computed[t]
        /\ prior[t].result = "g1"
        /\ cache_key[t] \in DOMAIN db

\* C4: when the engine fails (returns None) the call ends at once, returns
\* None - which is not the empty result - and the step changes neither the
\* memory cache nor the persistent store.
C4_FailureNotCached ==
    [][\A t \in Threads :
         (pc[t] = "calculating" /\ pc'[t] # "calculating" /\ grid_data'[t] = "None")
            => /\ pc'[t] = "done"
               /\ ret'[t] = "None" /\ ret'[t] # "[]"
               /\ memory_cache' = memory_cache
               /\ db' = db]_vars

C4_Witness ==
    \E t \in Threads :
        /\ pc[t] = "done" /\ computed[t] /\ ret[t] = "None"
        /\ ~MemHas(memory_cache, cache_key[t])
        /\ cache_key[t] \notin DOMAIN db

\* C5 as claimed: no two engine invocations for one key are in flight at the
\* same time.
C5_NeverTwiceConcurrently ==
    \A k \in AllKeys : Cardinality(InFlight(k)) <= 1

\* C5 as amended: a caller that consults the caches (a call without
\* force_recalculate, a worker) is computing only if its own lookup of the
\* persistent store returned nothing: a miss, an empty grid or a store error.
C5_ComputesOnlyAfterOwnMiss ==
    /\ \A t \in Threads :
          (pc[t] \in {"enqueue", "calculating"} /\ ~force[t])
              => cached_data[t] \in {"None", "[]"}
    /\ \A w \in Workers :
          wpc[w] = "calculating" => wcached[w] \in {"None", "[]"}

C5_Witness ==
    \E t \in Threads, w \in Workers :
        /\ pc[t] = "calculating" /\ ~force[t]
        /\ wpc[w] = "calculating"
        /\ TaskKey(wtask[w]) = cache_key[t]

\* C6: the preload queue never holds two pending tasks with the same key.
C6_OnePendingTaskPerKey ==
    \A i, j \in DOMAIN preload_queue :
        i # j => TaskKey(preload_queue[i]) # TaskKey(preload_queue[j])

\* C7: the enqueue of a cache miss whose key is that of a pending task leaves
\* the queue as it was (same tasks, same order, same priorities), and the
\* queue then holds exactly one task of that key.
C7_EnqueueIdempotent ==
    [][\A t \in Threads :
         (pc[t] = "enqueue" /\ pc'[t] # "enqueue"
          /\ cache_key[t] \in QueueKeys(preload_queue))
            => /\ preload_queue' = preload_queue
               /\ Cardinality({i \in DOMAIN preload_queue' :
                                 TaskKey(preload_queue'[i]) = cache_key[t]}) = 1]_vars

\* The part of C7 that _add_to_preload_queue decides alone: such an enqueue
\* leaves the queue as it was.
C7_EnqueueLeavesQueueUnchanged ==
    [][\A t \in Threads :
         (pc[t] = "enqueue" /\ pc'[t] # "enqueue"
          /\ cache_key[t] \in QueueKeys(preload_queue))
            => preload_queue' = preload_queue]_vars

\* The pending task of the key was seeded for the same query written in
\* another way, and the enqueue of this call has been made.
C7_Witness ==
    \E t \in Threads :
        /\ pc[t] = "calculating"
        /\ \E i \in DOMAIN preload_queue :
              /\ TaskKey(preload_queue[i]) = cache_key[t]
              /\ preload_queue[i].business_lines # req[t].business_lines
        /\ Cardinality({i \in DOMAIN preload_queue :
                          TaskKey(preload_queue[i]) = cache_key[t]}) = 1

\* C8: the memory cache never holds more than max_memory_cache_size entries.
C8_MemoryCacheBounded == Len(memory_cache) <= max_memory_cache_size

\* An insertion of a new key into the full cache has been made.
C8_Witness ==
    /\ Len(memory_cache) = max_memory_cache_size
    /\ MemHas(memory_cache, RequestKey(RequestA))
    /\ \E t \in Threads : pc[t] = "done" /\ oldest_key[t] # NoKey

\* C9: an insertion that evicts removes exactly one entry, the scanned one,
\* which has the minimum last_accessed of all entries resident when it is
\* deleted; an insertion that does not evict removes none.
C9_EvictsLeastRecentlyUsed ==
    [][\A t \in Threads :
         (pc[t] = "mem_put" /\ pc'[t] = "done")
            => IF oldest_key[t] # NoKey
               THEN /\ MemHas(memory_cache, oldest_key[t])
                    /\ \A i \in DOMAIN memory_cache :
                          MemEntry(memory_cache, oldest_key[t]).last_accessed
                              <= memory_cache[i].last_accessed
                    /\ MemKeys(memory_cache') =
                          (MemKeys(memory_cache) \ {oldest_key[t]}) \cup {cache_key[t]}
               ELSE MemKeys(memory_cache') = MemKeys(memory_cache) \cup {cache_key[t]}]_vars

\* An eviction was made after a hit had refreshed the entry inserted first:
\* the evicted entry is another one, and the refreshed one is still resident.
C9_Witness ==
    \E t \in Threads :
        /\ pc[t] = "done"
        /\ oldest_key[t] \notin {NoKey, RequestKey(WarmRequest(1))}
        /\ ~MemHas(memory_cache, oldest_key[t])
        /\ MemHas(memory_cache, RequestKey(WarmRequest(1)))

\* The same elements, each as many times, in any order.
IsPermutation(s, t) ==
    /\ Len(s) = Len(t)
    /\ \A i \in DOMAIN s :
          Cardinality({j \in DOMAIN s : s[j] = s[i]})
              = Cardinality({j \in DOMAIN t : t[j] = s[i]})

\* Two optional containers with the same content, whatever the order.
SameContent(x, y) == x[1] = y[1] /\ IsPermutation(x[2], y[2])

LogicallyIdentical(a, b) ==
    /\ a.city_name = b.city_name
    /\ SameContent(a.business_lines, b.business_lines)
    /\ SameContent(a.vendor_filters, b.vendor_filters)
    /\ SameContent(a.additional_params, b.additional_params)

\* C10: two argument tuples with the same city, the same business lines in
\* any order and the same filter / additional pairs in any order of their
\* names get the same key.
C10_KeyOrderInsensitive ==
    (key_out # <<NoKey, NoKey>> /\ LogicallyIdentical(key_in[1], key_in[2]))
        => key_out[1] = key_out[2]

C10_Witness ==
    /\ key_out # <<NoKey, NoKey>>
    /\ LogicallyIdentical(key_in[1], key_in[2])
    /\ key_in[1].business_lines # key_in[2].business_lines
    /\ key_in[1].vendor_filters # key_in[2].vendor_filters
    /\ key_in[1].additional_params # key_in[2].additional_params
    /\ Len(key_in[1].business_lines[2]) = 3
    /\ key_out[1] = key_out[2]

\* An absent argument: None or the empty sequence / mapping.
IsAbsent(x) == x[1] = "null" \/ x[2] = <<>>

\* The same argument, where None and the empty container count as the same.
SameOrBothAbsent(x, y) == x = y \/ (IsAbsent(x) /\ IsAbsent(y))

\* C11: two argument tuples that differ only in writing an absent
\* business_lines, vendor_filters or additional_params as None or as the
\* empty sequence / mapping get the same key.
C11_AbsentIsEmpty ==
    (/\ key_out # <<NoKey, NoKey>>
     /\ key_in[1].city_name = key_in[2].city_name
     /\ SameOrBothAbsent(key_in[1].business_lines, key_in[2].business_lines)
     /\ SameOrBothAbsent(key_in[1].vendor_filters, key_in[2].vendor_filters)
     /\ SameOrBothAbsent(key_in[1].additional_params, key_in[2].additional_params))
        => key_out[1] = key_out[2]

\* The part of C11 that holds: with the same vendor_filters, None and the
\* empty container are one input for business_lines and additional_params.
C11_AbsentIsEmptyButFilters ==
    (/\ key_out # <<NoKey, NoKey>>
     /\ key_in[1].city_name = key_in[2].city_name
     /\ SameOrBothAbsent(key_in[1].business_lines, key_in[2].business_lines)
     /\ key_in[1].vendor_filters = key_in[2].vendor_filters
     /\ SameOrBothAbsent(key_in[1].additional_params, key_in[2].additional_params))
        => key_out[1] = key_out[2]

\* Keys were derived for vendor_filters None and {} and for nothing else
\* that differs.
C11_Witness ==
    /\ key_out # <<NoKey, NoKey>>
    /\ key_in[1].vendor_filters = PyNone
    /\ key_in[2].vendor_filters = PyDict(<<>>)
    /\ key_in[1].city_name = key_in[2].city_name
    /\ key_in[1].business_lines = key_in[2].business_lines
    /\ key_in[1].additional_params = key_in[2].additional_params

FullMissComputes ==
    \A t \in Threads :
        (pc[t] = "done" /\ at_begin[t].memory = "None" /\ at_begin[t].store = "None")
            => computed[t]

C14_ClearPersistent ==
    [][\A t \in Threads :
         (cache_type[t] = "persistent" /\ pc'[t] # pc[t])
            => /\ memory_cache' = memory_cache
               /\ pc'[t] = "idle" => db' = <<>>]_vars

\* The tiers a cache_type names, in the code's vocabulary.
TiersNamed(ct) ==
    IF ct = "all" THEN {"memory", "store"}
    ELSE IF ct = "memory" THEN {"memory"}
    ELSE IF ct = "database" THEN {"store"}
    ELSE {}

\* C14 as amended: the scope that clears the persistent store is "database";
\* "memory", "database" and "all" clear exactly the tiers they name (the
\* store unless the DELETE raises), and any other cache_type, "persistent"
\* included, changes nothing.
C14_ClearsTheTiersNamed ==
    [][\A t \in Threads :
         /\ (pc[t] = "clear_memory" /\ pc'[t] # pc[t])
               => /\ memory_cache' = (IF "memory" \in TiersNamed(cache_type[t])
                                      THEN <<>> ELSE memory_cache)
                  /\ db' = db
         /\ (pc[t] = "clear_database" /\ pc'[t] # pc[t])
               => /\ db' = (IF "store" \in TiersNamed(cache_type[t])
                               /\ ~store_failed'[t]
                            THEN <<>> ELSE db)
                  /\ memory_cache' = memory_cache]_vars

\* clear_cache("database") has ended: the store is empty and the memory
\* cache still holds the entry of an earlier call.
C14_Witness ==
    \E t \in Threads :
        /\ pc[t] = "idle" /\ cache_type[t] = "database" /\ ~store_failed[t]
        /\ db = <<>>
        /\ memory_cache # <<>>

\* A record's age is counted from the call of cleanup_old_cache, on the clock
\* last_accessed is written with (UTC).
OlderThanWindow(stamp, now, days_old) == stamp < now - days_old * TicksPerDay

\* The step of a cleanup_old_cache call that returns normally.
CleanupEnds(t) ==
    pc[t] = "cleanup_delete" /\ pc'[t] = "idle" /\ ~store_failed'[t]

\* C15: a cleanup_old_cache call that returns removes every record whose
\* last_accessed is older than the retention window and retains, as they
\* are, the records whose last_accessed falls inside it.
C15_CleanupByWindow ==
    [][\A t \in Threads : CleanupEnds(t) =>
         \A k \in DOMAIN db :
            IF OlderThanWindow(db_last_accessed[k], utc_now, cleanup[t].days_old)
            THEN k \notin DOMAIN db'
            ELSE k \in DOMAIN db' /\ db'[k] = db[k]
                 /\ db_last_accessed'[k] = db_last_accessed[k]]_vars

\* The same on a host whose local time is UTC.
C15_CleanupByWindowInUtc ==
    [][\A t \in Threads : (CleanupEnds(t) /\ tz_offset = 0) =>
         \A k \in DOMAIN db :
            IF OlderThanWindow(db_last_accessed[k], utc_now, cleanup[t].days_old)
            THEN k \notin DOMAIN db'
            ELSE k \in DOMAIN db' /\ db'[k] = db[k]
                 /\ db_last_accessed'[k] = db_last_accessed[k]]_vars

\* A cleanup is about to delete, on a host east of UTC, a record that was
\* last accessed inside the retention window.
C15_Witness ==
    \E t \in Threads : \E k \in DOMAIN db :
        /\ pc[t] = "cleanup_delete" /\ tz_offset = 1
        /\ ~OlderThanWindow(db_last_accessed[k], utc_now, cleanup[t].days_old)
        /\ DeletedByCleanup(db_last_accessed[k], cleanup[t].cutoff_date)

\* The memory cache holds `g` for `key`.
MemHolds(mc, key, g) == MemHas(mc, key) /\ MemEntry(mc, key).data = g

\* C16: a call during which a store operation raised (the lookup, the write)
\* ends all the same, returns the result the engine computed, and that
\* result is in the memory cache when the call ends.
C16_StoreFailureTolerated ==
    \A t \in Threads :
        (pc[t] = "done" /\ store_failed[t] /\ computed[t] /\ grid_data[t] # "None")
            => /\ ret[t] = grid_data[t]
               /\ MemHolds(memory_cache, cache_key[t], grid_data[t])

\* The same for the results the code takes for a result (non-empty ones).
C16_StoreFailureToleratedNonEmpty ==
    \A t \in Threads :
        (pc[t] = "done" /\ store_failed[t] /\ computed[t] /\ GridTruthy(grid_data[t]))
            => /\ ret[t] = grid_data[t]
               /\ MemHolds(memory_cache, cache_key[t], grid_data[t])

\* A call whose store write raised has ended: it returned the computed grid,
\* the grid is in memory and not in the store.
C16_Witness ==
    \E t \in Threads :
        /\ pc[t] = "done" /\ store_failed[t] /\ computed[t]
        /\ ret[t] = "g1"
        /\ MemHolds(memory_cache, cache_key[t], "g1")
        /\ cache_key[t] \notin DOMAIN db

\* Where a thread is inside the body of start_preloading, past its test.
StartBodyPcs == {"sp_set", "sp_seed", "sp_sort", "sp_submit"}

LiveWorkers == {w \in Workers : wpc[w] # "free"}

\* C17: start_preloading called while preloading is running is a no-op: the
\* call does not enter the body (no seeding, no submit), and from its
\* beginning to its return it leaves the queue, the flag and the worker
\* loops as they are.
C17_StartIdempotent ==
    [][\A t \in Threads :
         /\ (is_preloading /\ pc[t] = "idle") => pc'[t] \notin StartBodyPcs
         /\ ((pc[t] = "sp_warned" \/ pc'[t] = "sp_warned") /\ pc'[t] # pc[t])
               => /\ preload_queue' = preload_queue
                  /\ is_preloading' = is_preloading
                  /\ LiveWorkers' = LiveWorkers]_vars

\* start_preloading has been called while a worker loop runs and tasks are
\* queued, and is about to return.
C17_Witness ==
    \E t \in Threads :
        /\ pc[t] = "sp_warned" /\ is_preloading
        /\ preload_queue # <<>>
        /\ Cardinality(LiveWorkers) = 1

\* C18 as claimed: once stop_preloading has been called, a worker loop that
\* comes to its iteration boundary ends there - it dequeues nothing more.
C18_StopsAtNextBoundary ==
    [][\A w \in Workers :
         (executor_shutdown /\ wpc[w] = "loop" /\ wpc'[w] # "loop")
            => wpc'[w] = "free"]_vars

\* C18 as amended: a worker loop that comes to its iteration boundary while
\* the flag is still cleared (no start_preloading has set it again) ends
\* there without dequeuing; after the executor's shutdown an ended loop is
\* never run again; and while the flag stays cleared every worker loop
\* eventually ends.
C18_StopsUnlessRestarted ==
    /\ [][\A w \in Workers :
            /\ (~is_preloading /\ wpc[w] = "loop" /\ wpc'[w] # "loop")
                  => wpc'[w] = "free" /\ preload_queue' = preload_queue
            /\ (executor_shutdown /\ wpc[w] = "free") => wpc'[w] = "free"]_vars
    /\ (~is_preloading) ~> (LiveWorkers = {} \/ is_preloading)

\* stop_preloading has ended, the worker loop that ran has stored a grid and
\* has ended, and tasks are left in the queue.
C18_Witness ==
    /\ executor_shutdown /\ ~is_preloading
    /\ \A t \in Threads : pc[t] = "idle"
    /\ LiveWorkers = {}
    /\ db # <<>>
    /\ preload_queue # <<>>

\* C20: at most one worker loop is live in any state, whatever sequence of
\* start_preloading and stop_preloading calls the caller makes.
C20_OneWorkerLoop == Cardinality(LiveWorkers) <= 1

\* start_preloading was called again after stop_preloading while the loop of
\* the first start was still live, and has ended: still one loop.
C20_Witness ==
    /\ executor_shutdown /\ is_preloading
    /\ \A t \in Threads : pc[t] = "idle"
    /\ Cardinality(LiveWorkers) = 1

\* The steps of a stop_preloading call of thread t leave every other thread
\* where it is, with its locals, and leave both tiers and the worker loops
\* as they are.
StopCancelsNothing(t) ==
    ((pc[t] = "stop_shutdown" \/ pc'[t] = "stop_shutdown") /\ pc'[t] # pc[t])
        => /\ \A u \in Threads \ {t} : pc'[u] = pc[u]
           /\ UNCHANGED << localVars, workerVars, memory_cache, db >>

\* Thread t's get_or_calculate call began before the executor's shutdown and
\* has computed a result; the shutdown happened while it was in flight.
StoppedInFlight(t) ==
    /\ pc[t] = "done" /\ computed[t] /\ grid_data[t] # "None"
    /\ ~at_begin[t].shutdown /\ executor_shutdown

\* The call returns what it computed and both tiers hold it.
WrittenThrough(t) ==
    /\ ret[t] = grid_data[t]
    /\ MemHolds(memory_cache, cache_key[t], grid_data[t])
    /\ cache_key[t] \in DOMAIN db /\ db[cache_key[t]] = grid_data[t]

\* C19: stop_preloading never waits (its shutdown step can be taken whatever
\* the worker is doing) and cancels nothing, and a foreground call that was
\* in flight when it ran ends with its computed result returned and written
\* to both tiers (the store permitting).
C19_StopSparesForeground ==
    /\ [][\A t \in Threads : StopCancelsNothing(t)]_vars
    /\ [](\A t \in Threads : pc[t] = "stop_shutdown" => ENABLED StopShutdown(t))
    /\ [](\A t \in Threads :
            (StoppedInFlight(t) /\ ~store_failed[t]) => WrittenThrough(t))

\* The same for the results the code takes for a result (non-empty ones).
C19_StopSparesForegroundNonEmpty ==
    /\ [][\A t \in Threads : StopCancelsNothing(t)]_vars
    /\ [](\A t \in Threads : pc[t] = "stop_shutdown" => ENABLED StopShutdown(t))
    /\ [](\A t \in Threads :
            (StoppedInFlight(t) /\ ~store_failed[t] /\ GridTruthy(grid_data[t]))
                => WrittenThrough(t))

\* stop_preloading has returned while a worker is in the middle of a task,
\* and the foreground call that was in flight has ended with its grid
\* returned and in both tiers.
C19_Witness ==
    \E t \in Threads :
        /\ StoppedInFlight(t) /\ WrittenThrough(t) /\ ret[t] = "g1"
        /\ \A u \in Threads \ {t} : pc[u] = "idle"
        /\ \E w \in Workers : wpc[w] \in {"check", "calculating", "store"}

\* The four bonuses of an argument tuple: primary city, high-traffic
\* business line present, exactly one business line, premium-tier filters.
PriorityBonuses(a) ==
    {b \in {"city", "line", "single", "premium"} :
        \/ b = "city" /\ a.city_name = "tehran"
        \/ b = "line" /\ \E i \in DOMAIN a.business_lines[2] :
                             a.business_lines[2][i] = "restaurant"
        \/ b = "single" /\ Len(a.business_lines[2]) = 1
        \/ b = "premium" /\ DictGet(a.vendor_filters, "grades") = PyList(<<"A+">>)}

\* C22: _calculate_priority returns 3 minus one per bonus, raised to 1 when
\* below and lowered to 5 when above; tehran / [restaurant] / grades [A+]
\* gives 1; every task in the queue has a priority in 1..5.
C22_PriorityRule ==
    /\ priority \notin {NoPriority, PriorityRaised}
          => LET raw == 3 - Cardinality(PriorityBonuses(key_in[1]))
             IN  /\ priority \in 1..5
                 /\ raw \in 1..5 => priority = raw
                 /\ raw < 1 => priority = 1
                 /\ raw > 5 => priority = 5
                 /\ Cardinality(PriorityBonuses(key_in[1])) = 4 => priority = 1
    /\ \A i \in DOMAIN preload_queue : preload_queue[i].priority \in 1..5

\* The priority of tehran / [restaurant] / grades [A+] has been computed, it
\* is 1 (3 - 4 clamped) and the task is queued with it.
C22_Witness ==
    /\ key_in[1].city_name = "tehran"
    /\ key_in[1].business_lines = PyList(<<"restaurant">>)
    /\ DictGet(key_in[1].vendor_filters, "grades") = PyList(<<"A+">>)
    /\ priority = 1
    /\ Len(preload_queue) = 1 /\ preload_queue[1].priority = 1

\* The requests warm_up_cache is to make for priority_cities: one per common
\* combination whose city is among them and whose priority is at most 2.
WarmUpExpected(priority_cities) ==
    LET cities == IF priority_cities = PyNone THEN {"tehran"}
                  ELSE {priority_cities[2][i] : i \in DOMAIN priority_cities[2]}
    IN  { Request(WarmUpCombinations[n].city_name,
                  WarmUpCombinations[n].business_lines,
                  WarmUpCombinations[n].vendor_filters) :
            n \in {m \in DOMAIN WarmUpCombinations :
                      /\ WarmUpCombinations[m].city_name \in cities
                      /\ WarmUpCombinations[m].priority <= 2} }

\* C21: warm_up_cache begins a get_or_calculate call only for an expected
\* combination and never twice for one, runs the calls one at a time, and
\* when it has returned every expected combination has had its call and
\* every call has returned, whatever the calls returned (None included).
C21_WarmUpRunsEachOnce ==
    \A t \in Threads :
        LET w == warm_up[t]
        IN  /\ \A i \in DOMAIN w.begun : w.begun[i] \in WarmUpExpected(w.priority_cities)
            /\ \A i, j \in DOMAIN w.begun : w.begun[i] = w.begun[j] => i = j
            /\ Len(w.begun) - Len(w.returned) \in {0, 1}
            /\ (w # NoWarmUp /\ ~w.active)
                  => /\ {w.begun[i] : i \in DOMAIN w.begun}
                          = WarmUpExpected(w.priority_cities)
                     /\ Len(w.returned) = Len(w.begun)
                     /\ pc[t] # "warm_loop"

\* warm_up_cache(["mashhad", "tehran"]) has returned: its first call failed
\* (None) and its second call ran all the same and returned a grid.
C21_Witness ==
    \E t \in Threads :
        /\ ~warm_up[t].active /\ pc[t] = "idle"
        /\ warm_up[t].priority_cities = PyList(<<"mashhad", "tehran">>)
        /\ Len(warm_up[t].begun) = 2
        /\ warm_up[t].returned = <<"None", "g1">>

\* Threads t and u have both finished a non-forced call for one key, each
\* having begun while neither tier held the key and each having computed a
\* result, with no store operation raising.
MissedConcurrently(t, u) ==
    /\ t # u /\ pc[t] = "done" /\ pc[u] = "done"
    /\ cache_key[t] = cache_key[u]
    /\ \A v \in {t, u} :
          /\ ~force[v] /\ computed[v] /\ ~store_failed[v]
          /\ at_begin[v].memory = "None" /\ at_begin[v].store = "None"

\* Each tier holds exactly one entry for the key, one of the two results.
OneEntryEachTier(key, results) ==
    /\ Cardinality({i \in DOMAIN memory_cache : memory_cache[i].key = key}) = 1
    /\ MemEntry(memory_cache, key).data \in results
    /\ key \in DOMAIN db /\ db[key] \in results

\* C23: two calls for one key that missed concurrently have both returned
\* what they computed, and each tier holds exactly one entry for the key.
C23_ConcurrentMissesBothStored ==
    \A t, u \in Threads :
        (MissedConcurrently(t, u) /\ grid_data[t] # "None" /\ grid_data[u] # "None")
            => /\ ret[t] = grid_data[t] /\ ret[u] = grid_data[u]
               /\ OneEntryEachTier(cache_key[t], {ret[t], ret[u]})

\* The same when at least one of the two results is non-empty.
C23_ConcurrentMissesBothStoredNonEmpty ==
    \A t, u \in Threads :
        (/\ MissedConcurrently(t, u)
         /\ grid_data[t] # "None" /\ grid_data[u] # "None"
         /\ GridTruthy(grid_data[t]) \/ GridTruthy(grid_data[u]))
            => /\ ret[t] = grid_data[t] /\ ret[u] = grid_data[u]
               /\ OneEntryEachTier(cache_key[t], {ret[t], ret[u]})

\* Two concurrent misses for one key have both computed and returned the
\* grid, and each tier holds it once.
C23_Witness ==
    /\ MissedConcurrently(1, 2)
    /\ ret[1] = "g1" /\ ret[2] = "g1"
    /\ OneEntryEachTier(cache_key[1], {"g1"})
    /\ Len(memory_cache) = 1

\* The miss path's enqueue step of thread t: afterwards a task for the call's
\* key is pending, and the queue has grown by that one task unless one was
\* pending already. The engine is entered only after this step.
EnqueuedBeforeEngine(t) ==
    (pc[t] = "enqueue" /\ pc'[t] = "calculating")
        => /\ computed'[t] /\ ~computed[t]
           /\ cache_key[t] \in QueueKeys(preload_queue')
           /\ Len(preload_queue') =
                 Len(preload_queue)
                    + (IF cache_key[t] \in QueueKeys(preload_queue) THEN 0 ELSE 1)

\* Thread t's call found its key in neither tier, invoked the engine, the
\* engine returned a result (it did not fail), and the call is about to
\* return.
FullMissComputed(t) ==
    /\ pc[t] = "done" /\ ~force[t] /\ computed[t] /\ grid_data[t] # "None"
    /\ at_begin[t].memory = "None" /\ cached_data[t] = "None"

\* C24: on a full miss whose computation succeeds the call enqueues a preload
\* task for the key (unless one is pending) before the engine is invoked,
\* and when it returns both tiers hold the returned result under the key
\* (the store permitting).
C24_MissEnqueuesThenWritesThrough ==
    /\ [][\A t \in Threads : EnqueuedBeforeEngine(t)]_vars
    /\ [](\A t \in Threads :
            (FullMissComputed(t) /\ ~store_failed[t]) => WrittenThrough(t))

\* The same for the results the code takes for a result (non-empty ones).
C24_MissEnqueuesThenWritesThroughNonEmpty ==
    /\ [][\A t \in Threads : EnqueuedBeforeEngine(t)]_vars
    /\ [](\A t \in Threads :
            (FullMissComputed(t) /\ ~store_failed[t] /\ GridTruthy(grid_data[t]))
                => WrittenThrough(t))

\* A full miss has computed the grid and is about to return it with both
\* tiers holding it, its preload task still pending.
C24_Witness ==
    \E t \in Threads :
        /\ FullMissComputed(t) /\ ~store_failed[t]
        /\ ret[t] = "g1" /\ WrittenThrough(t)
        /\ cache_key[t] \in QueueKeys(preload_queue)

\* Thread t's call is not forced and found its key absent from the memory
\* cache and present in the persistent store when it began.
StoredOnly(t) ==
    /\ ~force[t]
    /\ at_begin[t].memory = "None" /\ at_begin[t].store # "None"

\* The call ends having returned the stored result, with that result in the
\* memory cache and the engine not invoked.
ServedFromStore(t) ==
    /\ ret[t] = at_begin[t].store
    /\ MemHolds(memory_cache, cache_key[t], at_begin[t].store)
    /\ ~computed[t]

\* C25 as claimed: a call with force_recalculate=false that finds its key
\* absent from the memory cache and present in the persistent store never
\* enqueues a preload task and ends having returned the stored result, with
\* that result in the memory cache and the engine not invoked.
C25_StoreHitServedFromStore ==
    /\ [][\A t \in Threads : StoredOnly(t) => preload_queue' = preload_queue]_vars
    /\ [](\A t \in Threads : (StoredOnly(t) /\ pc[t] = "done") => ServedFromStore(t))

\* C25 as amended: the same when the store lookup does not raise; then the
\* lookup step goes straight to the memory insertion with the stored result.
C25_StoreHitServedUnlessLookupFails ==
    /\ [][\A t \in Threads :
            (StoredOnly(t) /\ ~store_failed'[t])
                => /\ preload_queue' = preload_queue
                   /\ pc[t] = "db_check"
                         => (pc'[t] = "mem_scan" /\ put_data'[t] = db[cache_key[t]])]_vars
    /\ [](\A t \in Threads :
            (StoredOnly(t) /\ ~store_failed[t] /\ pc[t] = "done")
                => ServedFromStore(t))

\* A call has been served from the store: the memory cache had been cleared,
\* the record was still there, and the call ends with the stored grid
\* returned and back in the memory cache, nothing computed, nothing enqueued
\* beyond the one task of the first call.
C25_Witness ==
    \E t \in Threads :
        /\ StoredOnly(t) /\ ~store_failed[t] /\ pc[t] = "done" /\ ~computed[t]
        /\ ret[t] = "g1" /\ cached_data[t] = "g1"
        /\ MemHolds(memory_cache, cache_key[t], "g1")
        /\ Len(preload_queue) = 1

\* C26: an insertion of a key that is already resident, made while the
\* memory cache is at capacity, evicts no entry: the resident keys are the
\* same afterwards and the size is still the capacity.
C26_ResidentKeyEvictsNothing ==
    [][\A t \in Threads :
         (/\ pc[t] = "mem_put" /\ pc'[t] = "done"
          /\ MemHas(memory_cache, cache_key[t])
          /\ Len(memory_cache) = max_memory_cache_size)
            => /\ MemKeys(memory_cache') = MemKeys(memory_cache)
               /\ Len(memory_cache') = max_memory_cache_size]_vars

\* An insertion of a resident key into the full cache has been made: another
\* entry was deleted for it and the cache is one entry short of its capacity.
C26_Witness ==
    \E t \in Threads :
        /\ pc[t] = "done"
        /\ oldest_key[t] \notin {NoKey, cache_key[t]}
        /\ ~MemHas(memory_cache, oldest_key[t])
        /\ MemHas(memory_cache, cache_key[t])
        /\ Len(memory_cache) = max_memory_cache_size - 1

\* Ascending by priority number.
QueueOrdered(q) ==
    \A i, j \in DOMAIN q : i < j => q[i].priority <= q[j].priority

\* The tasks of one priority, in queue order.
PriorityBand(q, p) ==
    LET InBand(task) == task.priority = p
    IN  SelectSeq(q, InBand)

\* A step treats every priority band as a FIFO: the band is as it was, or
\* has lost its first task, or has gained one task behind all the others.
BandsFifo ==
    \A p \in {preload_queue[i].priority : i \in DOMAIN preload_queue}
                \cup {preload_queue'[i].priority : i \in DOMAIN preload_queue'} :
        LET band == PriorityBand(preload_queue, p)
            band_after == PriorityBand(preload_queue', p)
        IN  \/ band_after = band
            \/ band # <<>> /\ band_after = Tail(band)
            \/ /\ Len(band_after) = Len(band) + 1
               /\ SubSeq(band_after, 1, Len(band)) = band

\* C27: whenever the queue lock is free the preload queue is ascending by
\* priority number, and tasks of equal priority stay in insertion order.
\* (queue_lock is held only inside one step of the model - an enqueue, one
\* turn of the seeding loop, the sort, a dequeue - so it is free in every
\* state.)
C27_QueueOrderedFifo ==
    /\ [](QueueOrdered(preload_queue))
    /\ [][BandsFifo]_vars

\* What holds: the bands are FIFOs, and the queue is ascending whenever no
\* start_preloading call is between its first append and its sort.
C27_QueueOrderedOutsideSeeding ==
    /\ []((\A t \in Threads : pc[t] \notin {"sp_seed", "sp_sort"})
             => QueueOrdered(preload_queue))
    /\ [][BandsFifo]_vars

\* start_preloading is in its seeding loop, the queue lock free, with a
\* seeded task of priority 1 behind the priority-2 task of an earlier miss.
C27_Witness ==
    \E t \in Threads :
        /\ pc[t] = "sp_seed"
        /\ ~QueueOrdered(preload_queue)
        /\ Head(preload_queue).priority > preload_queue[Len(preload_queue)].priority

\* The lowest priority number among the pending tasks.
IsLowestPending(task, q) == \A i \in DOMAIN q : task.priority <= q[i].priority

\* C28: every task a worker dequeues has, at the moment of the dequeue, the
\* lowest priority number among all pending tasks.
C28_DequeuesLowestPriority ==
    [][\A w \in Workers :
         (wpc[w] = "pop" /\ wpc'[w] = "check")
            => IsLowestPending(wtask'[w], preload_queue)]_vars

\* What holds: the worker takes the head of the queue, which has the lowest
\* priority number whenever no start_preloading call is between its first
\* append and its sort.
C28_DequeuesHead ==
    [][\A w \in Workers :
         (wpc[w] = "pop" /\ wpc'[w] = "check")
            => /\ wtask'[w] = Head(preload_queue)
               /\ preload_queue' = Tail(preload_queue)
               /\ (\A t \in Threads : pc[t] \notin {"sp_seed", "sp_sort"})
                     => IsLowestPending(wtask'[w], preload_queue)]_vars

\* The worker of the first start_preloading is still in its loop during the
\* seeding of the second and has just dequeued the priority-2 task of an
\* earlier miss while a seeded task of priority 1 is pending.
C28_Witness ==
    \E w \in Workers, t \in Threads :
        /\ wpc[w] = "check" /\ pc[t] = "sp_seed"
        /\ preload_queue # <<>>
        /\ ~IsLowestPending(wtask[w], preload_queue)

\* A step of the worker loop w (each changes where the loop is).
WorkerSteps(w) == wpc'[w] # wpc[w] /\ wpc[w] # "free"

\* C29: the worker removes a task from the queue only by its dequeue, which
\* takes exactly the head entry for this worker alone; no other step of a
\* worker changes the queue, so a dequeued task is never put back, whether
\* its lookup, its computation or its store write succeeds or fails, and
\* the worker has let go of it when it comes back to its loop test.
C29_DequeuedOnceNeverPutBack ==
    /\ [][\A w \in Workers :
            WorkerSteps(w)
               => /\ IF wpc[w] = "pop" /\ preload_queue # <<>>
                     THEN /\ preload_queue' = Tail(preload_queue)
                          /\ wtask'[w] = Head(preload_queue)
                     ELSE preload_queue' = preload_queue
                  /\ \A v \in Workers \ {w} : wtask'[v] = wtask[v]]_vars
    /\ [](\A w \in Workers : wpc[w] \in {"loop", "pop", "free"} => wtask[w] = NoTask)

\* The worker dequeued the first seeded task and the task failed (nothing
\* was stored): the worker is back at its loop test and the queue holds the
\* second seeded task only.
C29_Witness ==
    \E w \in Workers :
        /\ wpc[w] = "loop" /\ wtask[w] = NoTask
        /\ db = <<>>
        /\ preload_queue = Tail(SeedCombinations)
        /\ \A t \in Threads : pc[t] = "idle"

\* The check of a dequeued task by worker w: the step that leaves "check".
WorkerChecks(w) == wpc[w] = "check" /\ wpc'[w] # "check"

\* The task is skipped: the loop goes to its next turn without the engine,
\* and the table is as it was.
TaskSkipped(w) ==
    /\ wpc'[w] = "loop" /\ wtask'[w] = NoTask
    /\ db' = db

\* C30 as claimed: the worker invokes the engine for a dequeued task only if
\* the store holds no record for the task's key at the time of the check; if
\* a record is present the task is skipped, nothing computed, the record
\* not rewritten.
C30_ComputesOnlyIfNoRecord ==
    [][\A w \in Workers :
         WorkerChecks(w)
            => IF TaskKey(wtask[w]) \in DOMAIN db
               THEN TaskSkipped(w)
               ELSE wpc'[w] = "calculating"]_vars

\* C30 as amended: the worker invokes the engine only if its lookup returned
\* no record - the store holds none, or the lookup raised - and always when
\* the store holds none; a task is skipped only when a record is present,
\* and then nothing is computed and the record is not rewritten.
C30_ComputesOnlyIfLookupFindsNone ==
    [][\A w \in Workers :
         WorkerChecks(w)
            => /\ wpc'[w] \in {"calculating", "loop"}
               /\ wpc'[w] = "calculating" => wcached'[w] = "None"
               /\ TaskKey(wtask[w]) \notin DOMAIN db => wpc'[w] = "calculating"
               /\ wpc'[w] = "loop"
                     => (TaskKey(wtask[w]) \in DOMAIN db /\ TaskSkipped(w))]_vars

\* A worker has dequeued a task whose key has a record in the store (the
\* combination was seeded again by a restart after its grid was stored) and is
\* at its check.
C30_Witness ==
    \E w \in Workers :
        /\ wpc[w] = "check"
        /\ TaskKey(wtask[w]) \in DOMAIN db
        /\ db[TaskKey(wtask[w])] = "g1"
        /\ ENABLED (WorkerCheck(w) /\ TaskSkipped(w))

\* Worker w's engine call returns.
WorkerComputed(w) == wpc[w] = "calculating" /\ wpc'[w] # "calculating"

\* Worker w's store write ends: the table is as it was (the write raised) or
\* holds the computed grid under the task's key.
WorkerWrites(w) ==
    (wpc[w] = "store" /\ wpc'[w] # "store")
        => \/ db' = db
           \/ /\ TaskKey(wtask[w]) \in DOMAIN db'
              /\ db'[TaskKey(wtask[w])] = wgrid[w]

\* C31: when the engine call of a worker's task returns a result (not a
\* failure), with or without points, the worker goes on to write it to the
\* persistent store, and the write leaves the result under the task's key.
C31_WorkerStoresEveryResult ==
    [][\A w \in Workers :
         /\ (WorkerComputed(w) /\ wgrid'[w] # "None") => wpc'[w] = "store"
         /\ WorkerWrites(w)]_vars

\* The same for the results the code takes for a result (non-empty ones).
C31_WorkerStoresNonEmptyResult ==
    [][\A w \in Workers :
         /\ (WorkerComputed(w) /\ GridTruthy(wgrid'[w])) => wpc'[w] = "store"
         /\ WorkerWrites(w)]_vars

\* A worker has computed the empty grid for the first seeded task and is
\* back at its loop test: the task is finished and the store has no record.
C31_Witness ==
    \E w \in Workers :
        /\ wpc[w] = "loop" /\ wgrid[w] = "[]" /\ wtask[w] = NoTask
        /\ preload_queue = Tail(SeedCombinations)
        /\ TaskKey(Head(SeedCombinations)) \notin DOMAIN db

\* Thread t takes a step of get_or_calculate_coverage_grid that writes the
\* memory cache (the hit's access update, the insertion) or the clearing
\* step of clear_cache.
MemoryWriterSteps(t) ==
    /\ pc[t] \in {"mem_check", "mem_put", "clear_memory"}
    /\ pc'[t] # pc[t]

\* C32: no step of a worker loop changes the memory cache, and every step
\* that changes it is a step of a foreground get_or_calculate call or of
\* clear_cache.
C32_WorkerLeavesMemoryAlone ==
    [][/\ \A w \in Workers : WorkerSteps(w) => memory_cache' = memory_cache
       /\ memory_cache' # memory_cache => \E t \in Threads : MemoryWriterSteps(t)]_vars

\* A worker has stored the grid of the first seeded combination while the
\* memory cache holds another key only: the stored key is not in memory.
C32_Witness ==
    \E w \in Workers :
        /\ wpc[w] = "loop" /\ wtask[w] = NoTask
        /\ TaskKey(Head(SeedCombinations)) \in DOMAIN db
        /\ MemKeys(memory_cache) = {RequestKey(RequestA)}
        /\ \A t \in Threads : pc[t] = "idle"

\* The last engine call of worker w failed and the loop is at its test.
FailedTask(w) == wpc[w] = "loop" /\ wgrid[w] = "None"

\* C33: a worker loop ends only at its own test and only when is_preloading
\* is false - no step of a task, failed or not, ends it: the engine's return
\* and the store write always lead back to the loop's test - and a loop
\* whose task failed goes on, while is_preloading stays true, to dequeue the
\* next pending task.
C33_FailureNeverEndsLoop ==
    /\ [][\A w \in Workers :
            /\ (wpc'[w] = "free" /\ wpc[w] # "free")
                  => (wpc[w] = "loop" /\ ~is_preloading)
            /\ (wpc[w] = "calculating" /\ wpc'[w] # "calculating")
                  => wpc'[w] \in {"store", "loop"}
            /\ (wpc[w] = "store" /\ wpc'[w] # "store") => wpc'[w] = "loop"]_vars
    /\ \A w \in Workers :
          (FailedTask(w) /\ preload_queue # <<>>)
              ~> (wpc[w] = "check" \/ ~is_preloading)

\* The engine failed on the first seeded task and the worker has dequeued
\* the second.
C33_Witness ==
    \E w \in Workers :
        /\ wpc[w] = "check" /\ wgrid[w] = "None"
        /\ wtask[w] = SeedCombinations[2]
        /\ is_preloading

\* Where a thread is while a Computation Engine call or a persistent-store
\* operation of its own is executing, and where it is in a queue_lock section.
EngineOrStorePcs == {"db_check", "calculating", "db_store", "stats_db",
                     "clear_database", "cleanup_delete"}

QueueSectionPcs == {"enqueue", "stats_queue", "sp_seed", "sp_sort"}

\* Where a thread waits for memory_cache_lock.
MemoryLockWaitPcs == {"mem_check", "mem_scan", "stats_memory", "clear_memory"}

\* Some step of thread t's call can be taken (the enqueue step has no guard
\* but its position).
CanStep(t) ==
    \/ ENABLED MemCheck(t) \/ ENABLED DbCheck(t) \/ pc[t] = "enqueue"
    \/ ENABLED CalcEnd(t) \/ ENABLED DbStore(t) \/ ENABLED MemScan(t)
    \/ ENABLED MemPut(t) \/ ENABLED Return(t) \/ ENABLED StatsStep(t)
    \/ ENABLED StartWarned(t) \/ ENABLED StartSet(t) \/ ENABLED StartSeed(t)
    \/ ENABLED StartSort(t) \/ ENABLED StartSubmit(t) \/ ENABLED StopShutdown(t)

RecordReplaced(key, d, now) ==
    /\ db' = [k \in DOMAIN db \cup {key} |-> IF k = key THEN d ELSE db[k]]
    /\ db_last_accessed' =
          [k \in DOMAIN db_last_accessed \cup {key} |->
              IF k = key THEN now ELSE db_last_accessed[k]]

\* Only the last_accessed of the record of `key` changed, to `now`.
RecordTouched(key, now) ==
    /\ db' = db
    /\ db_last_accessed' = [db_last_accessed EXCEPT ![key] = now]

TableUnchanged == db' = db /\ db_last_accessed' = db_last_accessed

\* C35: the table has one record per key, made of a payload and a
\* last_accessed; a write replaces the record of its key by the payload
\* written, stamped with the time of the write, and leaves the other records
\* alone (or raises and leaves the table alone); a lookup that hits sets the
\* last_accessed of its record to the time of the lookup and changes nothing
\* else in the table.
C35_OneRecordPerKeyStamped ==
    [][ /\ DOMAIN db' = DOMAIN db_last_accessed'
        /\ \A t \in Threads :
              /\ (pc[t] = "db_store" /\ pc'[t] # "db_store")
                    => \/ RecordReplaced(cache_key[t], grid_data[t], utc_now)
                       \/ store_failed'[t] /\ TableUnchanged
              /\ (pc[t] = "db_check" /\ pc'[t] # "db_check"
                       /\ cached_data'[t] # "None")
                    => RecordTouched(cache_key[t], utc_now)
        /\ \A w \in Workers :
              /\ (wpc[w] = "store" /\ wpc'[w] # "store")
                    => \/ RecordReplaced(TaskKey(wtask[w]), wgrid[w], utc_now)
                       \/ TableUnchanged
              /\ (wpc[w] = "check" /\ wpc'[w] = "loop")
                    => RecordTouched(TaskKey(wtask[w]), utc_now) ]_vars

\* Time has passed, and a forced call whose key had a record when the call
\* began has just written it again: the record carries the time of the write.
C35_Witness ==
    \E t \in Threads :
        /\ pc[t] = "mem_scan"
        /\ ~store_failed[t]
        /\ at_begin[t].store # "None"
        /\ utc_now > 0
        /\ cache_key[t] \in DOMAIN db_last_accessed
        /\ db_last_accessed[cache_key[t]] = utc_now
        /\ force[t]


(*************************************************************************)
(* C36: the two tiers hold independent copies                            *)
(*************************************************************************)
\* The thread is inside clear_cache.
InClearCache(t) == pc[t] \in {"clear_memory", "clear_database"}

InStartPreloading(t) == pc[t] \in {"sp_warned", "sp_set", "sp_seed", "sp_sort", "sp_submit"}

\* C38: whenever is_preloading is set and no start_preloading call is in
\* progress, a worker loop is live (so the flag get_cache_stats reports is
\* true only while a loop is live, and a start after a stop starts one).
C38_FlagMeansLiveWorker ==
    (is_preloading /\ \A t \in Threads : ~InStartPreloading(t))
        => LiveWorkers # {}

\* The same, for a manager whose executor was never shut down.
C38_FlagMeansLiveWorkerBeforeStop ==
    (is_preloading /\ ~executor_shutdown /\ \A t \in Threads : ~InStartPreloading(t))
        => LiveWorkers # {}

\* start_preloading was called after stop_preloading and has returned: the
\* flag is set, tasks are pending and no worker loop is live.
C38_Witness ==
    /\ is_preloading
    /\ executor_shutdown
    /\ \A t \in Threads : pc[t] = "idle"
    /\ LiveWorkers = {}
    /\ preload_queue # <<>>


(*************************************************************************)
(* C39: tasks are enqueued on a full miss only                           *)
(*************************************************************************)
\* The step of get_or_calculate_coverage_grid that appends its task.
Enqueues(t) ==
    /\ pc[t] = "enqueue"
    /\ pc'[t] = "calculating"
    /\ preload_queue' # preload_queue

HeldByNoTier(key) ==
    /\ \A i \in DOMAIN memory_cache : memory_cache[i].key # key
    /\ key \notin DOMAIN db

\* C39: whenever get_or_calculate_coverage_grid appends a task to the
\* preload queue, the key of the task is in neither tier at that moment.
C39_EnqueuedOnFullMissOnly ==
    [][ \A t \in Threads : Enqueues(t) => HeldByNoTier(cache_key[t]) ]_vars

\* The same for the calls that looked the key up (force_recalculate false)
\* and whose store lookup did not raise.
C39_EnqueuedOnFullMissUnlessForced ==
    [][ \A t \in Threads :
          (Enqueues(t) /\ ~force[t] /\ ~store_failed[t])
              => HeldByNoTier(cache_key[t]) ]_vars


(*************************************************************************)
(* C40: the two tiers agree in every quiescent state                     *)
(*************************************************************************)
\* No call and no worker task is in flight.
Quiescent ==
    /\ \A t \in Threads : pc[t] = "idle"
    /\ \A w \in Workers : wpc[w] \in {"free", "loop", "pop"}

\* C40: in every quiescent state a key held by both tiers has in both the
\* result of one engine invocation, so the same grid (the engine's results
\* for a key differ from one invocation to another in this workload).
C40_TiersAgreeWhenQuiescent ==
    Quiescent
        => \A i \in DOMAIN memory_cache :
              memory_cache[i].key \in DOMAIN db
                 => memory_cache[i].data = db[memory_cache[i].key]

\* A quiescent state in which the memory cache and the store hold different
\* grids under one key, no store operation of the calls having raised.
C40_Witness ==
    /\ Quiescent
    /\ \E i \in DOMAIN memory_cache :
          /\ memory_cache[i].key \in DOMAIN db
          /\ memory_cache[i].data # db[memory_cache[i].key]
    /\ \A t \in Threads : ~store_failed[t]


(*************************************************************************)
(* C37: the worker drains the queue                                      *)
(*************************************************************************)
\* The keys that can be enqueued.
TaskKeys ==
    {RequestKey(r) : r \in {RequestA, RequestB2}}
        \cup {TaskKey(SeedCombinations[i]) : i \in DOMAIN SeedCombinations}

Pending(key) == key \in QueueKeys(preload_queue)

PendingTask(key) ==
    preload_queue[CHOOSE i \in DOMAIN preload_queue : TaskKey(preload_queue[i]) = key]

\* A worker loop is live and the flag is set.
WorkerRunning == is_preloading /\ LiveWorkers # {}

\* A step that adds a task to the queue.
QueueGrows == \E i \in DOMAIN preload_queue' :
                 TaskKey(preload_queue'[i]) \notin QueueKeys(preload_queue)

\* A step that adds to the queue a task of a smaller priority number than
\* the pending task of `key`: the added task is sorted in front of it.
Overtakes(key) ==
    /\ Pending(key)
    /\ \E i \in DOMAIN preload_queue' :
          /\ TaskKey(preload_queue'[i]) \notin QueueKeys(preload_queue)
          /\ preload_queue'[i].priority < PendingTask(key).priority

\* C37 as claimed: while the worker is running every pending task is
\* eventually dequeued, whatever else is enqueued meanwhile.
C37_EveryTaskDequeued ==
    \A key \in TaskKeys :
        (Pending(key) /\ WorkerRunning) ~> (~Pending(key) \/ ~WorkerRunning)

\* C37: while the worker is running every pending task is eventually
\* dequeued unless tasks of a smaller priority number are enqueued again and
\* again; and if from some point on no task is enqueued and the worker keeps
\* running, the queue eventually becomes empty.
C37_DequeuedUnlessOvertaken ==
    /\ \A key \in TaskKeys :
          \/ (Pending(key) /\ WorkerRunning) ~> (~Pending(key) \/ ~WorkerRunning)
          \/ []<><<Overtakes(key)>>_vars
    /\ (<>[][~QueueGrows]_vars /\ <>[]WorkerRunning) => <>(preload_queue = <<>>)

\* The worker is running on a task of priority 1 that a foreground call has
\* already enqueued again, in front of a pending task of priority 2.
C37_Witness ==
    \E w \in Workers, key \in TaskKeys :
        /\ WorkerRunning
        /\ wtask[w] # NoTask
        /\ Pending(TaskKey(wtask[w]))
        /\ Pending(key)
        /\ wtask[w].priority < PendingTask(key).priority


=============================================================================
